---- MODULE Spec2Model ----
(***************************************************************************)
(* Model of resource_dasm's resource decompression shim                    *)
(* (src/src/ResourceCompression.cc): the process-wide cache of system      *)
(* decompressors, the header validation and candidate-list construction of *)
(* decompress_resource, and its attempt loop with the memory layout, the   *)
(* 68K activation frame and the read-back of the output region.            *)
(*                                                                         *)
(* 32-bit (and wider) unsigned quantities are pairs <<hi, lo>> with        *)
(* value hi * 65536 + lo and lo < 65536, because the addresses used by the *)
(* shim (0xF0000000, ...) do not fit the model checker's integers. A pair  *)
(* is a 32-bit value when hi < 65536.                                      *)
(***************************************************************************)
EXTENDS Integers, Sequences, FiniteSets, TLC

\* ------------------------------------------------------------------------
\* Bounds of the model
\* ------------------------------------------------------------------------

\* largest number of DecompressionFlag bits set in one call
MaxFlags == 2

\* largest number of bytes a built-in decompressor returns in the model
MaxBuiltinOut == 3

\* ------------------------------------------------------------------------
\* Fixed-width arithmetic
\* ------------------------------------------------------------------------

W16 == 256 * 256

FromNat(n) == <<n \div W16, n % W16>>

AddW(a, b) == <<a[1] + b[1] + ((a[2] + b[2]) \div W16), (a[2] + b[2]) % W16>>

\* conversion to uint32_t
Trunc32(a) == <<a[1] % W16, a[2]>>

LtW(a, b) == a[1] < b[1] \/ (a[1] = b[1] /\ a[2] < b[2])

LeW(a, b) == a = b \/ LtW(a, b)

\* the number of addresses of the 32-bit address space, 2^32
AddressSpaceSize == <<W16, 0>>

\* be_uint16_t / be_uint32_t stores and loads
BE16(n) == <<n \div 256, n % 256>>

BE32(a) == BE16(a[1]) \o BE16(a[2])

ReadBE16(bytes, off) == bytes[off + 1] * 256 + bytes[off + 2]

ReadBE32(bytes, off) == <<ReadBE16(bytes, off), ReadBE16(bytes, off + 2)>>

\* be_int16_t load
ReadBES16(bytes, off) ==
  LET u == ReadBE16(bytes, off) IN IF u >= 32768 THEN u - W16 ELSE u

RECURSIVE Or16(_, _, _)
\* bitwise OR of the low n bits of a and b
Or16(a, b, n) ==
  IF n = 0 THEN 0
  ELSE (IF (a % 2 = 1) \/ (b % 2 = 1) THEN 1 ELSE 0) + 2 * Or16(a \div 2, b \div 2, n - 1)

\* ------------------------------------------------------------------------
\* CompressedResourceHeader (declared in ResourceCompression.hh)
\* ------------------------------------------------------------------------

HeaderMagic == <<168, 159, 101, 114>>  \* A8 9F 65 72

\* sizeof(CompressedResourceHeader): magic u32, header_version u16,
\* attributes u16, decompressed_size u32 and the union, whose v8 and v9
\* members both list six bytes of fields
CompressedResourceHeaderSize == 4 + 2 + 2 + 4 + 6

header_magic(data) == SubSeq(data, 1, 4)

header_version(data) == ReadBE16(data, 4)

header_attributes(data) == ReadBE16(data, 6)

header_decompressed_size(data) == ReadBE32(data, 8)

v8_dcmp_resource_id(data) == ReadBES16(data, 14)

v8_output_extra_bytes(data) == ReadBE16(data, 16)

v9_dcmp_resource_id(data) == ReadBES16(data, 12)

v9_output_extra_bytes(data) == ReadBE16(data, 14)

\* ------------------------------------------------------------------------
\* Inputs: compressed resources
\* ------------------------------------------------------------------------

S16Bytes(n) == BE16(IF n < 0 THEN n + W16 ELSE n)

\* a compressed resource: header followed by two bytes of compressed data
MakeResourceData(magic, version, attributes, dsize, id, extra) ==
  magic \o BE16(version) \o BE16(attributes) \o BE32(dsize) \o
  (IF version = 9
     THEN S16Bytes(id) \o BE16(extra) \o <<0, 0>>
     ELSE <<1, 1>> \o S16Bytes(id) \o BE16(extra)) \o
  <<90, 91>>

BadMagic == <<168, 159, 101, 0>>

DcmpIds == {-1, 2}

\* (decompressed_size, output_extra_bytes)
SizePairs == {<<<<0, 2>>, 0>>, <<<<0, 1>>, 2>>, <<<<24576, 1>>, 0>>, <<<<65535, 65535>>, 2>>}

ValidResourceData ==
  {MakeResourceData(HeaderMagic, v, 1, sp[1], id, sp[2]) :
     v \in {8, 9}, sp \in SizePairs, id \in DcmpIds}

InvalidResourceData ==
  { MakeResourceData(HeaderMagic, 7, 1, <<0, 2>>, 2, 0),
    MakeResourceData(HeaderMagic, 9, 0, <<0, 2>>, 2, 0),
    MakeResourceData(HeaderMagic, 7, 2, <<0, 2>>, 2, 0),
    MakeResourceData(BadMagic, 9, 1, <<0, 2>>, 2, 0),
    MakeResourceData(BadMagic, 7, 0, <<0, 2>>, 2, 0),
    BadMagic,
    <<1, 2, 3, 4, 5, 6, 7, 8, 9, 10>>,
    HeaderMagic,
    <<>> }

ResourceData == ValidResourceData \cup InvalidResourceData

\* the resources handed to decompress_resource: every data with the
\* compressed flag, and some without it or with the failure flag
Resources ==
  [flags : {{"COMPRESSED"}}, data : ResourceData] \cup
  [flags : {{}, {"COMPRESSED", "DECOMPRESSION_FAILED"}},
   data : {MakeResourceData(HeaderMagic, 9, 1, <<0, 2>>, 2, 0),
           MakeResourceData(BadMagic, 9, 1, <<0, 2>>, 2, 0)}]

\* ------------------------------------------------------------------------
\* Inputs: decompressor resources
\* ------------------------------------------------------------------------

\* ResourceFile::Resource with the fields the shim reads
Resource(type, id, data) == [type |-> type, id |-> id, data |-> data]

\* the nullptr entry of dcmp_resources that stands for the built-in
\* implementation
NullResource == Resource("null", 0, <<>>)

\* 'dcmp' in bytes 4..7: execution starts at byte 0
DcmpTagged == <<96, 0, 0, 99, 100, 99, 109, 112, 78, 117>>

\* offset table: the second word (8) is the entry point
DcmpOffset == <<0, 0, 0, 8, 0, 0, 0, 0, 78, 117, 78, 117>>

\* offset table whose second word (0x0100) is beyond the resource's end
DcmpOffsetOutside == <<0, 0, 1, 0, 0, 0, 0, 0, 78, 117>>

DcmpShort == <<0, 0, 0, 4, 78, 117, 0, 0, 0>>

DcmpSystem == <<0, 0, 0, 6, 0, 0, 78, 117, 0, 0, 0>>

NcmpFile == <<74, 111, 121, 33, 1>>

NcmpSystem == <<74, 111, 121, 33, 2>>

\* the caller's resource file; null stands for context_rf == nullptr
ContextFiles ==
  { [null |-> TRUE, resources |-> {}],
    [null |-> FALSE, resources |-> {}],
    [null |-> FALSE, resources |->
       {Resource("dcmp", 2, DcmpTagged), Resource("ncmp", 2, NcmpFile)}],
    [null |-> FALSE, resources |->
       {Resource("dcmp", -1, DcmpOffset), Resource("dcmp", 2, DcmpOffsetOutside)}],
    [null |-> FALSE, resources |->
       {Resource("dcmp", 2, DcmpShort), Resource("ncmp", -1, NcmpFile)}] }

\* ResourceFile::get_resource: the resource, or {} for out_of_range
get_resource(rf, type, id) == {r \in rf.resources : r.type = type /\ r.id = id}

\* names of the files of system_dcmps/: <<use_ncmp, resource_id>> stands for
\* "system_dcmps/%ccmp_%hd.bin"
SystemFileSets ==
  { {},
    {<<FALSE, -1>>, <<TRUE, -1>>, <<FALSE, 2>>},
    {<<TRUE, -1>>, <<TRUE, 2>>} }

\* load_file
FileData(filename) == IF filename[1] THEN NcmpSystem ELSE DcmpSystem

DecompressionFlags ==
  {"RETRY", "DISABLED", "SKIP_FILE_DCMP", "SKIP_FILE_NCMP", "SKIP_INTERNAL",
   "SKIP_SYSTEM_DCMP", "SKIP_SYSTEM_NCMP"}

\* ------------------------------------------------------------------------
\* get_system_decompressor
\* ------------------------------------------------------------------------

\* RESOURCE_TYPE_dcmp and RESOURCE_TYPE_ncmp as 32-bit values
ResourceTypeCode(type) == IF type = "ncmp" THEN <<28259, 28016>> ELSE <<25699, 28016>>

\* uint64_t key = (static_cast<uint64_t>(resource_type) << 16) | resource_id,
\* as four 16-bit limbs, most significant first; the int16_t resource_id is
\* sign-extended by the conversion to uint64_t
CacheKey(use_ncmp, resource_id) ==
  LET t == ResourceTypeCode(IF use_ncmp THEN "ncmp" ELSE "dcmp")
      s == IF resource_id < 0 THEN W16 - 1 ELSE 0
      low == IF resource_id < 0 THEN resource_id + W16 ELSE resource_id
  IN <<Or16(0, s, 16), Or16(t[1], s, 16), Or16(t[2], s, 16), Or16(0, low, 16)>>

\* faulty variant: the file is read at every call and its resource replaces
\* the cached one
get_system_decompressor_reloads(cache, fs, use_ncmp, resource_id) ==
  LET key == CacheKey(use_ncmp, resource_id)
      filename == <<use_ncmp, resource_id>>
      loaded == Resource(IF use_ncmp THEN "ncmp" ELSE "dcmp", resource_id, FileData(filename))
  IN IF filename \in fs
       THEN [found |-> TRUE, res |-> loaded,
             cache |-> [k \in DOMAIN cache \cup {key} |-> IF k = key THEN loaded ELSE cache[k]]]
     ELSE [found |-> FALSE, res |-> NullResource, cache |-> cache]

\* result of one call: the resource found or loaded (found = FALSE for
\* cannot_open_file) and the cache afterwards
get_system_decompressor(cache, fs, use_ncmp, resource_id) ==
  LET key == CacheKey(use_ncmp, resource_id)
      filename == <<use_ncmp, resource_id>>
      loaded == Resource(IF use_ncmp THEN "ncmp" ELSE "dcmp", resource_id, FileData(filename))
  IN IF key \in DOMAIN cache
       THEN [found |-> TRUE, res |-> cache[key], cache |-> cache]
     ELSE IF filename \in fs
       THEN [found |-> TRUE, res |-> loaded,
             cache |-> [k \in DOMAIN cache \cup {key} |-> IF k = key THEN loaded ELSE cache[k]]]
     ELSE [found |-> FALSE, res |-> NullResource, cache |-> cache]

\* ------------------------------------------------------------------------
\* State
\* ------------------------------------------------------------------------

VARIABLES
  id_to_res,          \* get_system_decompressor's static cache
  files,              \* the files present in system_dcmps/
  res,                \* the resource passed to decompress_resource
  decompress_flags,   \* argument of the call in progress or last finished
  context_rf,         \* argument of the call in progress or last finished
  pc,                 \* "idle", "loop" (inside the for loop), "returned", "threw"
  error,              \* what() of the exception that left decompress_resource
  dcmp_resource_id,   \* local of decompress_resource
  output_extra_bytes, \* local of decompress_resource
  dcmp_resources,     \* local of decompress_resource: the candidate list
  z,                  \* loop index, 0-based as in the source
  attempts,           \* per loop iteration of this call: how it ended
  emu,                \* the guest set-up of the latest loop iteration
  res_before,         \* the resource as it was when the call was made
  machine,            \* a 68K guest and the syscall handler installed for it
  alu,                \* the latest call of a condition-code helper
  exec,               \* m68kexec's main_t: its locals and the guest's stack
  lookup,             \* the latest call of get_system_decompressor by another caller
  qd                  \* a QuickDraw Region: its bytes, its fields, the latest contains

vars == <<id_to_res, files, res, decompress_flags, context_rf, pc, error,
          dcmp_resource_id, output_extra_bytes, dcmp_resources, z, attempts,
          emu, res_before, machine, alu, exec, lookup, qd>>

\* the state of the programs other than decompress_resource
toolVars == <<machine, alu, exec, lookup, qd>>

FlagSets == {f \in SUBSET DecompressionFlags : Cardinality(f) <= MaxFlags}

EmptyCache == [k \in {} |-> NullResource]

\* no guest has been set up
NoEmu ==
  [kind |-> "none", regions |-> <<>>, started |-> FALSE, clean |-> FALSE,
   entry_offset |-> 0, pc |-> <<0, 0>>, a7 |-> <<0, 0>>, frame |-> <<>>,
   produced |-> 0, output |-> <<>>,
   r1 |-> <<0, 0>>, r2 |-> <<0, 0>>, lr |-> <<0, 0>>,
   ended |-> "none", syscall_r2 |-> <<0, 0>>]

\* no 68K guest is running under a syscall handler
NoMachine ==
  [handler |-> "none", status |-> "none", steps |-> 0,
   d0 |-> <<0, 0>>, d1 |-> <<0, 0>>, a0 |-> <<0, 0>>, a1 |-> <<0, 0>>,
   mem |-> <<>>, blocks |-> {}, stubs |-> <<>>,
   opcode |-> 0, trap_number |-> 0, auto_pop |-> FALSE, flags |-> 0]

\* no condition-code helper has been called
NoAlu ==
  [op |-> "none", left |-> <<0, 0>>, right |-> <<0, 0>>, size |-> 0,
   result |-> <<0, 0>>, x |-> FALSE, n |-> FALSE, z |-> FALSE, v |-> FALSE,
   c |-> FALSE]

\* m68kexec has not been started
NoLookup ==
  [calls |-> 0, use_ncmp |-> FALSE, resource_id |-> 0, found |-> FALSE,
   res |-> NullResource, loads |-> {}]

NoRegion ==
  [phase |-> "none", input |-> <<>>, ok |-> FALSE,
   rect |-> [y1 |-> 0, x1 |-> 0, y2 |-> 0, x2 |-> 0], inversions |-> {},
   bytes |-> <<>>, again |-> [ok |-> FALSE, rect |-> [y1 |-> 0, x1 |-> 0, y2 |-> 0, x2 |-> 0],
                              inversions |-> {}],
   x |-> 0, y |-> 0, contained |-> FALSE]

NoExec ==
  [phase |-> "none", little |-> FALSE, values_to_push |-> <<>>, patches |-> {},
   segment_defs |-> <<>>, state |-> [given |-> FALSE, sp |-> <<0, 0>>, regions |-> {}],
   reg_sp |-> <<0, 0>>, sp |-> <<0, 0>>, sp_before |-> <<0, 0>>, pushed |-> 0,
   regions |-> {}, mem |-> <<>>, done |-> <<>>,
   argv |-> <<>>, x |-> 1, arch |-> "M68K"]

Init ==
  /\ id_to_res = EmptyCache
  /\ files \in SystemFileSets
  /\ res = [flags |-> {}, data |-> <<>>]
  /\ decompress_flags = {}
  /\ context_rf = [null |-> TRUE, resources |-> {}]
  /\ pc = "idle"
  /\ error = ""
  /\ dcmp_resource_id = 0
  /\ output_extra_bytes = 0
  /\ dcmp_resources = <<>>
  /\ z = 0
  /\ attempts = <<>>
  /\ emu = NoEmu
  /\ res_before = [flags |-> {}, data |-> <<>>]
  /\ machine = NoMachine
  /\ alu = NoAlu
  /\ exec = NoExec
  /\ lookup = NoLookup
  /\ qd = NoRegion

\* ------------------------------------------------------------------------
\* decompress_resource, up to the for loop
\* ------------------------------------------------------------------------

\* res->data.size() < sizeof(CompressedResourceHeader)
HeaderTooSmall(data) == Len(data) < CompressedResourceHeaderSize

\* header.magic != 0xA89F6572
MagicMismatch(data) == header_magic(data) # HeaderMagic

\* faulty variant: the flag is left set
ClearCompressed_keeps(flags) == flags

\* res->flags & ~ResourceFlag::FLAG_COMPRESSED
ClearCompressed(flags) == flags \ {"COMPRESSED"}

\* header.attributes & 0x01
HasCompressionAttribute(data) == header_attributes(data) % 2 = 1

VersionSupported(data) == header_version(data) = 9 \/ header_version(data) = 8

\* faulty variant: the v9 layout is read whatever the version
HeaderDcmpResourceId_v9only(data) == v9_dcmp_resource_id(data)

\* the version-specific reads of dcmp_resource_id and output_extra_bytes
HeaderDcmpResourceId(data) ==
  IF header_version(data) = 9 THEN v9_dcmp_resource_id(data) ELSE v8_dcmp_resource_id(data)

HeaderOutputExtraBytes(data) ==
  IF header_version(data) = 9 THEN v9_output_extra_bytes(data) ELSE v8_output_extra_bytes(data)

OneOrNone(set) == IF set = {} THEN <<>> ELSE <<CHOOSE r \in set : TRUE>>

\* the candidate list and the cache after building it
BuildCandidates(cache, fs, dflags, rf, id) ==
  LET file_dcmp == IF ~rf.null /\ "SKIP_FILE_DCMP" \notin dflags
                     THEN OneOrNone(get_resource(rf, "dcmp", id)) ELSE <<>>
      file_ncmp == IF ~rf.null /\ "SKIP_FILE_NCMP" \notin dflags
                     THEN OneOrNone(get_resource(rf, "ncmp", id)) ELSE <<>>
      internal == IF "SKIP_INTERNAL" \notin dflags /\ id >= 0 /\ id <= 3
                    THEN <<NullResource>> ELSE <<>>
      g1 == get_system_decompressor(cache, fs, FALSE, id)
      try1 == "SKIP_SYSTEM_DCMP" \notin dflags
      cache1 == IF try1 THEN g1.cache ELSE cache
      g2 == get_system_decompressor(cache1, fs, TRUE, id)
      try2 == "SKIP_SYSTEM_NCMP" \notin dflags
  IN [list |-> file_dcmp \o file_ncmp \o internal \o
               (IF try1 /\ g1.found THEN <<g1.res>> ELSE <<>>) \o
               (IF try2 /\ g2.found THEN <<g2.res>> ELSE <<>>),
      cache |-> IF try2 THEN g2.cache ELSE cache1]

\* the part of the call's state that returning or throwing before the loop
\* leaves as it is
LeaveBeforeLoop(how, what) ==
  /\ pc' = how
  /\ error' = what
  /\ dcmp_resources' = <<>>
  /\ z' = 0
  /\ UNCHANGED id_to_res

\* faulty variant: an empty list enters the loop
NoDecompressorsAvailable_never(list) == FALSE

\* dcmp_resources.empty()
NoDecompressorsAvailable(list) == list = <<>>

\* the body of decompress_resource up to its for loop
Decompress(r, dflags, rf) ==
       /\ res_before' = r
       /\ decompress_flags' = dflags
       /\ context_rf' = rf
       /\ attempts' = <<>>
       /\ emu' = NoEmu
       /\ UNCHANGED <<files, machine, alu, exec, lookup, qd>>
       /\ IF "COMPRESSED" \notin r.flags
            THEN /\ res' = r
                 /\ LeaveBeforeLoop("returned", "")
                 /\ UNCHANGED <<dcmp_resource_id, output_extra_bytes>>
          ELSE IF "RETRY" \notin dflags /\ "DECOMPRESSION_FAILED" \in r.flags
            THEN /\ res' = r
                 /\ LeaveBeforeLoop("returned", "")
                 /\ UNCHANGED <<dcmp_resource_id, output_extra_bytes>>
          ELSE IF "DISABLED" \in dflags
            THEN /\ res' = r
                 /\ LeaveBeforeLoop("returned", "")
                 /\ UNCHANGED <<dcmp_resource_id, output_extra_bytes>>
          ELSE IF HeaderTooSmall(r.data)
            THEN /\ res' = r
                 /\ LeaveBeforeLoop("threw", "resource marked as compressed but is too small")
                 /\ UNCHANGED <<dcmp_resource_id, output_extra_bytes>>
          ELSE IF MagicMismatch(r.data)
            THEN /\ res' = [r EXCEPT !.flags = ClearCompressed(r.flags)]
                 /\ LeaveBeforeLoop("returned", "")
                 /\ UNCHANGED <<dcmp_resource_id, output_extra_bytes>>
          ELSE IF ~HasCompressionAttribute(r.data)
            THEN /\ res' = r
                 /\ LeaveBeforeLoop("threw", "resource marked as compressed but does not have compression attribute set")
                 /\ UNCHANGED <<dcmp_resource_id, output_extra_bytes>>
          ELSE IF ~VersionSupported(r.data)
            THEN /\ res' = r
                 /\ LeaveBeforeLoop("threw", "compressed resource header version is not 8 or 9")
                 /\ UNCHANGED <<dcmp_resource_id, output_extra_bytes>>
          ELSE LET id == HeaderDcmpResourceId(r.data)
                   extra == HeaderOutputExtraBytes(r.data)
                   built == BuildCandidates(id_to_res, files, dflags, rf, id)
               IN /\ res' = r
                  /\ dcmp_resource_id' = id
                  /\ output_extra_bytes' = extra
                  /\ id_to_res' = built.cache
                  /\ dcmp_resources' = built.list
                  /\ z' = 0
                  /\ IF NoDecompressorsAvailable(built.list)
                       THEN /\ pc' = "threw"
                            /\ error' = "no decompressors are available for this resource"
                       ELSE /\ pc' = "loop"
                            /\ error' = ""

\* a call by a caller that holds some resource
decompress_resource ==
  /\ pc = "idle"
  /\ \E r \in Resources, dflags \in FlagSets, rf \in ContextFiles :
       Decompress(r, dflags, rf)

\* a second call on the resource the call before has just decompressed
decompress_resource_again ==
  /\ pc = "returned"
  /\ attempts # <<>>
  /\ \E dflags \in FlagSets : Decompress(res, dflags, context_rf)

\* faulty variant: the last candidate's exception is thrown again
NoDecompressorSucceeded_rethrows ==
  /\ pc = "loop"
  /\ z >= Len(dcmp_resources)
  /\ pc' = "threw"
  /\ error' = attempts[Len(attempts)].what
  /\ UNCHANGED <<id_to_res, files, res, decompress_flags, context_rf,
                 dcmp_resource_id, output_extra_bytes, dcmp_resources, z,
                 attempts, emu, res_before, machine, alu, exec, lookup, qd>>

\* the throw after the for loop
NoDecompressorSucceeded ==
  /\ pc = "loop"
  /\ z >= Len(dcmp_resources)
  /\ pc' = "threw"
  /\ error' = "no decompressor succeeded"
  /\ UNCHANGED <<id_to_res, files, res, decompress_flags, context_rf,
                 dcmp_resource_id, output_extra_bytes, dcmp_resources, z,
                 attempts, emu, res_before, machine, alu, exec, lookup, qd>>

\* ------------------------------------------------------------------------
\* MemoryContext (declared in MemoryContext.hh)
\* ------------------------------------------------------------------------

RegionEnd(r) == AddW(r.base, r.size)

RegionsOverlap(r1, r2) == LtW(r1.base, RegionEnd(r2)) /\ LtW(r2.base, RegionEnd(r1))

\* allocate_at succeeds when the range lies in the address space, does not
\* start at 0 and collides with no region of the context
CanAllocateAt(regions, addr, size) ==
  LET r == [base |-> addr, size |-> size]
  IN /\ addr # <<0, 0>>
     /\ LeW(RegionEnd(r), AddressSpaceSize)
     /\ \A i \in 1..Len(regions) : ~RegionsOverlap(regions[i], r)

allocate_at(regions, name, addr, size) ==
  Append(regions, [name |-> name, base |-> addr, size |-> size])

\* read(addr, size) succeeds when the range lies inside one region
CanRead(regions, addr, size) ==
  \E i \in 1..Len(regions) :
    /\ LeW(regions[i].base, addr)
    /\ LeW(AddW(addr, size), RegionEnd(regions[i]))

\* ------------------------------------------------------------------------
\* decompress_resource: setting up a guest-code decompressor
\* ------------------------------------------------------------------------

M68KDecompressorInputHeaderSize == 24

\* offsetof(M68KDecompressorInputHeader, reset_opcode)
ResetOpcodeOffset == 20

code_addr == <<61440, 0>>          \* 0xF0000000

stack_addr == <<4096, 0>>          \* 0x10000000

output_addr == <<8192, 0>>         \* 0x20000000

working_buffer_addr == <<32768, 0>> \* 0x80000000

input_addr == <<49152, 0>>         \* 0xC0000000

stack_region_size == 1024 * 16

\* header.decompressed_size + output_extra_bytes, a uint32_t sum
output_region_size(data, extra) ==
  Trunc32(AddW(header_decompressed_size(data), FromNat(extra)))

input_region_size(data) == Len(data) + 256

working_buffer_region_size(data) == Len(data) * 256

\* faulty variant: the first word of the offset table is taken
entry_offset_first_word(dcmp_data) ==
  IF SubSeq(dcmp_data, 5, 8) = <<100, 99, 109, 112>>
    THEN 0
    ELSE ReadBE16(dcmp_data, 0)

\* where in the dcmp execution starts
entry_offset(dcmp_data) ==
  IF SubSeq(dcmp_data, 5, 8) = <<100, 99, 109, 112>>
    THEN 0
    ELSE ReadBE16(dcmp_data, 2)

\* what PEFFFile and load_into make of an ncmp: a parse failure, or the
\* transition vector of its single export and the architecture
PeffOutcomes ==
  { [ok |-> FALSE, is_ppc |-> TRUE, entry_pc |-> <<0, 0>>, entry_r2 |-> <<0, 0>>],
    [ok |-> TRUE, is_ppc |-> TRUE, entry_pc |-> <<61440, 2>>, entry_r2 |-> <<61440, 4>>],
    [ok |-> TRUE, is_ppc |-> FALSE, entry_pc |-> <<61440, 0>>, entry_r2 |-> <<0, 0>>] }

\* faulty variant: the frame's size is not subtracted
frame_addr_at_top(size) == Trunc32(AddW(stack_addr, FromNat(stack_region_size)))

\* the frame's address: the top of the stack region minus the frame's size
frame_addr(size) == Trunc32(AddW(stack_addr, FromNat(stack_region_size - size)))

\* the bytes of the M68KDecompressorInputHeader written into the stack region
M68KFrame(data) ==
  LET data_size == BE32(Trunc32(FromNat(input_region_size(data) - CompressedResourceHeaderSize)))
      source == BE32(Trunc32(AddW(input_addr, FromNat(CompressedResourceHeaderSize))))
      return_addr == Trunc32(AddW(frame_addr(M68KDecompressorInputHeaderSize),
                                  FromNat(ResetOpcodeOffset)))
  IN BE32(return_addr) \o
     (IF header_version(data) = 9
        THEN BE32(input_addr) \o BE32(output_addr) \o source \o data_size
        ELSE data_size \o BE32(working_buffer_addr) \o BE32(output_addr) \o source) \o
     BE16(20080) \o BE16(0)

\* sizeof(PPC32DecompressorInputHeader): ten 32-bit fields
PPC32DecompressorInputHeaderSize == 10 * 4

\* offsetof(PPC32DecompressorInputHeader, set_r2_opcode)
SetR2OpcodeOffset == 8 * 4

\* the return address of a PowerPC decompressor
ppc_return_addr ==
  Trunc32(AddW(frame_addr(PPC32DecompressorInputHeaderSize), FromNat(SetR2OpcodeOffset)))

\* the bytes of the PPC32DecompressorInputHeader written into the stack region
PPCFrame(entry_r2) ==
  BE32(<<43690, 43690>>) \o BE32(<<0, 0>>) \o BE32(ppc_return_addr) \o
  BE32(<<0, 0>>) \o BE32(<<0, 0>>) \o BE32(entry_r2) \o
  BE32(<<0, 0>>) \o BE32(<<0, 0>>) \o
  BE32(<<14400, 65535>>) \o BE32(<<17408, 2>>)

RECURSIVE AllocateAll(_, _)
\* allocate the requested regions in order; stops at the first that cannot
\* be allocated
AllocateAll(regions, requests) ==
  IF requests = <<>> THEN [ok |-> TRUE, regions |-> regions]
  ELSE LET q == Head(requests)
       IN IF CanAllocateAt(regions, q.base, q.size)
            THEN AllocateAll(allocate_at(regions, q.name, q.base, q.size), Tail(requests))
            ELSE [ok |-> FALSE, regions |-> regions]

\* the four data regions, in the order the shim allocates them
DataRegions(data, extra) ==
  << [name |-> "stack", base |-> stack_addr, size |-> FromNat(stack_region_size)],
     [name |-> "output", base |-> output_addr, size |-> output_region_size(data, extra)],
     [name |-> "working", base |-> working_buffer_addr,
      size |-> FromNat(working_buffer_region_size(data))],
     [name |-> "input", base |-> input_addr, size |-> FromNat(input_region_size(data))] >>

\* everything between creating the MemoryContext and emu.execute(): ok is
\* FALSE when an exception ends the attempt before the guest runs
GuestSetup(dcmp_res, data, extra, peff) ==
  LET failed(what) == [ok |-> FALSE, what |-> what, emu |-> NoEmu]
      code == <<[name |-> "code", base |-> code_addr, size |-> FromNat(Len(dcmp_res.data))]>>
      off == IF dcmp_res.type = "dcmp" THEN entry_offset(dcmp_res.data) ELSE 0
      entry_pc == IF dcmp_res.type = "dcmp"
                    THEN Trunc32(AddW(code_addr, FromNat(off)))
                    ELSE peff.entry_pc
      is_ppc == dcmp_res.type = "ncmp" /\ peff.is_ppc
      all == AllocateAll(<<>>, code \o DataRegions(data, extra))
  IN IF dcmp_res.type = "dcmp" /\ Len(dcmp_res.data) < 10
       THEN failed("decompressor resource is too short")
     ELSE IF dcmp_res.type = "ncmp" /\ ~peff.ok
       THEN failed("ncmp decompressor cannot be loaded")
     ELSE IF dcmp_res.type \notin {"dcmp", "ncmp"}
       THEN failed("decompressor resource is not dcmp or ncmp")
     ELSE IF ~all.ok
       THEN failed("cannot allocate region")
     ELSE [ok |-> TRUE, what |-> "",
           emu |-> [kind |-> IF is_ppc THEN "ppc" ELSE "m68k",
                    regions |-> all.regions,
                    started |-> TRUE,
                    clean |-> FALSE,
                    entry_offset |-> off,
                    pc |-> entry_pc,
                    a7 |-> IF is_ppc THEN <<0, 0>>
                           ELSE frame_addr(M68KDecompressorInputHeaderSize),
                    frame |-> IF is_ppc THEN PPCFrame(peff.entry_r2) ELSE M68KFrame(data),
                    produced |-> 0,
                    output |-> <<>>,
                    r1 |-> IF is_ppc THEN frame_addr(PPC32DecompressorInputHeaderSize)
                           ELSE <<0, 0>>,
                    r2 |-> IF is_ppc THEN peff.entry_r2 ELSE <<0, 0>>,
                    lr |-> IF is_ppc THEN ppc_return_addr ELSE <<0, 0>>,
                    ended |-> "none",
                    syscall_r2 |-> <<0, 0>>]]

\* ------------------------------------------------------------------------
\* decompress_resource: one iteration of the for loop
\* ------------------------------------------------------------------------

\* res->flags = (res->flags & ~FLAG_COMPRESSED) | FLAG_DECOMPRESSED
\* faulty variant: the compressed flag stays set
MarkDecompressed_keeps_compressed(flags) == flags \cup {"DECOMPRESSED"}

MarkDecompressed(flags) == (flags \ {"COMPRESSED"}) \cup {"DECOMPRESSED"}

\* faulty variant: the exception of the attempt leaves decompress_resource
AttemptFailed_propagates(what, e) ==
  /\ attempts' = Append(attempts, [result |-> "failed", what |-> what,
                                   candidate |-> dcmp_resources[z + 1]])
  /\ emu' = e
  /\ pc' = "threw"
  /\ error' = what
  /\ UNCHANGED <<res, z>>

\* faulty variant: what the decompressor produced is stored before the
\* attempt is found to have failed
AttemptFailed_keeps_output(what, e) ==
  /\ attempts' = Append(attempts, [result |-> "failed", what |-> what,
                                   candidate |-> dcmp_resources[z + 1]])
  /\ emu' = e
  /\ z' = z + 1
  /\ res' = [res EXCEPT !.data = e.output]
  /\ UNCHANGED <<pc, error>>

\* the iteration ends in the catch block: the next candidate is tried
AttemptFailed(what, e) ==
  /\ attempts' = Append(attempts, [result |-> "failed", what |-> what,
                                   candidate |-> dcmp_resources[z + 1]])
  /\ emu' = e
  /\ z' = z + 1
  /\ UNCHANGED <<res, pc, error>>

\* the iteration replaces the data and returns
AttemptSucceeded(data, e) ==
  /\ attempts' = Append(attempts, [result |-> "ok", what |-> "",
                                   candidate |-> dcmp_resources[z + 1]])
  /\ emu' = e
  /\ res' = [flags |-> MarkDecompressed(res.flags), data |-> data]
  /\ pc' = "returned"
  /\ error' = ""
  /\ UNCHANGED z

\* what decompress_system0..3 can do: throw, or return some bytes
BuiltinOutcomes ==
  {[ok |-> FALSE, data |-> <<>>]} \cup
  {[ok |-> TRUE, data |-> [i \in 1..n |-> 32 + i]] : n \in 0..MaxBuiltinOut}

\* faulty variant: the length of the output is not verified
WrongAmount_unchecked(decompressed_data, data) == FALSE

\* decompressed_data.size() != header.decompressed_size
WrongAmount(decompressed_data, data) ==
  FromNat(Len(decompressed_data)) # header_decompressed_size(data)

AttemptInternal ==
  /\ pc = "loop"
  /\ z < Len(dcmp_resources)
  /\ dcmp_resources[z + 1] = NullResource
  /\ \E out \in BuiltinOutcomes :
       LET e == [NoEmu EXCEPT !.kind = "internal", !.clean = out.ok,
                              !.produced = Len(out.data), !.output = out.data]
       IN IF dcmp_resource_id \notin 0..3
            THEN AttemptFailed("internal implementation requested, but does not exist", NoEmu)
          ELSE IF ~out.ok
            THEN AttemptFailed("internal decompressor failed", e)
          ELSE IF WrongAmount(out.data, res.data)
            THEN AttemptFailed("internal decompressor produced the wrong amount of data", e)
          ELSE AttemptSucceeded(out.data, e)
  /\ UNCHANGED <<id_to_res, files, decompress_flags, context_rf, dcmp_resource_id,
                 output_extra_bytes, dcmp_resources, res_before, machine, alu, exec, lookup, qd>>

\* what the guest leaves in an output region of n bytes after writing the
\* first k of them
GuestOutput(n, k) == [i \in 1..n |-> IF i <= k THEN 16 + i ELSE 0]

\* mem->read(output_addr, header.decompressed_size)
ReadOutput(e, dsize) == SubSeq(e.output, 1, dsize[2])

\* faulty variant: every syscall ends the emulation
ppc_syscall_handler_any_r2(r2) == "terminate_emulation"

\* the handler of a PowerPC run: what it throws
ppc_syscall_handler(r2) ==
  IF r2 # <<65535, 65535>> THEN "unimplemented syscall" ELSE "terminate_emulation"

\* what R2 can hold when a PowerPC guest executes sc: the value the frame's
\* li r2, -1 leaves, or the guest's own R2
SyscallR2(e) == {<<65535, 65535>>, e.r2}

\* the ways emu.execute() ends: an exception of the emulator, or the opcode
\* that ends the run (a syscall on PowerPC, RESET on the 68K)
GuestEndings(e) ==
  {[e EXCEPT !.ended = "fault"]} \cup
  (IF e.kind = "ppc"
     THEN {[e EXCEPT !.ended = "syscall", !.syscall_r2 = r2] : r2 \in SyscallR2(e)}
     ELSE {[e EXCEPT !.ended = "reset"]})

\* the exception that leaves emu.execute(), "" when it returns
ExecuteThrows(e) ==
  IF e.ended = "fault" THEN "decompressor execution failed"
  ELSE IF e.ended = "syscall" /\ ppc_syscall_handler(e.syscall_r2) # "terminate_emulation"
    THEN ppc_syscall_handler(e.syscall_r2)
  ELSE ""

AttemptGuest ==
  /\ pc = "loop"
  /\ z < Len(dcmp_resources)
  /\ dcmp_resources[z + 1] # NullResource
  /\ \E peff \in PeffOutcomes :
       LET setup == GuestSetup(dcmp_resources[z + 1], res.data, output_extra_bytes, peff)
           dsize == header_decompressed_size(res.data)
           n == output_region_size(res.data, output_extra_bytes)[2]
       IN IF ~setup.ok
            THEN AttemptFailed(setup.what, setup.emu)
          ELSE \E ended \in GuestEndings(setup.emu) :
                 IF ExecuteThrows(ended) # ""
                   THEN AttemptFailed(ExecuteThrows(ended), ended)
                   ELSE \E k \in 0..n :
                          LET e == [ended EXCEPT !.clean = TRUE, !.produced = k,
                                                 !.output = GuestOutput(n, k)]
                          IN IF CanRead(e.regions, output_addr, dsize)
                               THEN AttemptSucceeded(ReadOutput(e, dsize), e)
                               ELSE AttemptFailed("cannot read the output region", e)
  /\ UNCHANGED <<id_to_res, files, decompress_flags, context_rf, dcmp_resource_id,
                 output_extra_bytes, dcmp_resources, res_before, machine, alu, exec, lookup, qd>>

\* the caller is done with the resource and with the call's result; the
\* process goes on with its cache of system decompressors
CallerContinues ==
  /\ pc \in {"returned", "threw"}
  /\ pc' = "idle"
  /\ res' = [flags |-> {}, data |-> <<>>]
  /\ decompress_flags' = {}
  /\ context_rf' = [null |-> TRUE, resources |-> {}]
  /\ error' = ""
  /\ dcmp_resource_id' = 0
  /\ output_extra_bytes' = 0
  /\ dcmp_resources' = <<>>
  /\ z' = 0
  /\ attempts' = <<>>
  /\ emu' = NoEmu
  /\ res_before' = [flags |-> {}, data |-> <<>>]
  /\ UNCHANGED <<id_to_res, files, machine, alu, exec, lookup, qd>>

Next ==
  \/ decompress_resource
  \/ CallerContinues
  \/ AttemptInternal
  \/ AttemptGuest
  \/ NoDecompressorSucceeded

Spec == Init /\ [][Next]_vars

\* ------------------------------------------------------------------------
\* Properties
\* ------------------------------------------------------------------------

\* a call has been made and its result, if any, has not been dropped yet
InCall == pc # "idle"

\* the call went past the three early returns
NotSkipped ==
  /\ InCall
  /\ "COMPRESSED" \in res_before.flags
  /\ ~("RETRY" \notin decompress_flags /\ "DECOMPRESSION_FAILED" \in res_before.flags)
  /\ "DISABLED" \notin decompress_flags

LastAttempt == attempts[Len(attempts)]

\* C1 as stated: every resource flagged compressed whose first four bytes
\* are not A8 9F 65 72 gets its compressed flag cleared, keeps its data, sees
\* no decompressor attempted and the call returns without an error.
C1_AnyFlaggedResource ==
  (/\ InCall
   /\ "COMPRESSED" \in res_before.flags
   /\ Len(res_before.data) >= 4
   /\ SubSeq(res_before.data, 1, 4) # <<168, 159, 101, 114>>)
  => (/\ pc = "returned"
      /\ "COMPRESSED" \notin res.flags
      /\ res.data = res_before.data
      /\ attempts = <<>>)

\* C1 amended: when the call is not skipped by an early return (failure flag
\* without RETRY, or DISABLED), the data is at least as long as a
\* CompressedResourceHeader and its first four bytes are not A8 9F 65 72,
\* the call returns without an error, only the compressed flag is cleared,
\* the data is unchanged and no decompressor is looked up or attempted.
C1_MagicMismatchClearsFlag ==
  (/\ NotSkipped
   /\ Len(res_before.data) >= CompressedResourceHeaderSize
   /\ SubSeq(res_before.data, 1, 4) # <<168, 159, 101, 114>>)
  => (/\ pc = "returned"
      /\ error = ""
      /\ res.flags = res_before.flags \ {"COMPRESSED"}
      /\ res.data = res_before.data
      /\ dcmp_resources = <<>>
      /\ attempts = <<>>)

C1_Witness ==
  /\ NotSkipped
  /\ Len(res_before.data) >= CompressedResourceHeaderSize
  /\ SubSeq(res_before.data, 1, 4) # <<168, 159, 101, 114>>
  /\ pc = "returned"
  /\ "DECOMPRESSION_FAILED" \in res.flags

\* the decompressors of the claim's list that exist for the call, in the
\* stated priority order
ExpectedCandidates ==
  LET present(type) == ~context_rf.null /\
                       \E r \in context_rf.resources : r.type = type /\ r.id = dcmp_resource_id
      in_file(type) == CHOOSE r \in context_rf.resources : r.type = type /\ r.id = dcmp_resource_id
  IN (IF "SKIP_FILE_DCMP" \notin decompress_flags /\ present("dcmp")
        THEN <<in_file("dcmp")>> ELSE <<>>) \o
     (IF "SKIP_FILE_NCMP" \notin decompress_flags /\ present("ncmp")
        THEN <<in_file("ncmp")>> ELSE <<>>) \o
     (IF "SKIP_INTERNAL" \notin decompress_flags /\ dcmp_resource_id \in 0..3
        THEN <<NullResource>> ELSE <<>>) \o
     (IF "SKIP_SYSTEM_DCMP" \notin decompress_flags /\ <<FALSE, dcmp_resource_id>> \in files
        THEN <<Resource("dcmp", dcmp_resource_id, DcmpSystem)>> ELSE <<>>) \o
     (IF "SKIP_SYSTEM_NCMP" \notin decompress_flags /\ <<TRUE, dcmp_resource_id>> \in files
        THEN <<Resource("ncmp", dcmp_resource_id, NcmpSystem)>> ELSE <<>>)

\* C2: the candidate list holds exactly the available decompressors whose
\* skip flag is not set, in priority order (file dcmp, file ncmp, built-in,
\* system dcmp, system ncmp), and none of them twice.
C2_CandidateList ==
  pc = "loop" =>
    /\ dcmp_resources = ExpectedCandidates
    /\ \A i, j \in 1..Len(dcmp_resources) : i # j => dcmp_resources[i] # dcmp_resources[j]

\* C3: the candidates are attempted one at a time in list order; a candidate
\* is attempted only after all earlier ones failed, a failure inside an
\* attempt ends only that attempt, nothing is attempted after a success, and
\* an error leaves the loop only when every candidate has failed.
C3_AttemptsInListOrder ==
  /\ Len(attempts) <= Len(dcmp_resources)
  /\ \A i \in 1..Len(attempts) :
       /\ attempts[i].candidate = dcmp_resources[i]
       /\ attempts[i].result = "ok" => (i = Len(attempts) /\ pc = "returned")
  /\ pc = "loop" => z = Len(attempts)
  /\ (pc = "returned" /\ dcmp_resources # <<>>) =>
       (attempts # <<>> /\ LastAttempt.result = "ok")
  /\ (pc = "threw" /\ dcmp_resources # <<>>) =>
       /\ Len(attempts) = Len(dcmp_resources)
       /\ \A i \in 1..Len(attempts) : attempts[i].result = "failed"

C3_Witness ==
  /\ pc = "returned"
  /\ Len(attempts) >= 3
  /\ LastAttempt.result = "ok"
  /\ Len(attempts) < Len(dcmp_resources)

\* C4 as stated: when every candidate fails, the error raised to the caller
\* is the error of the last candidate attempted.
C4_LastErrorSurfaces ==
  (pc = "threw" /\ attempts # <<>>) => error = LastAttempt.what

\* C4 amended: when every candidate fails, the error raised to the caller is
\* always the fixed error "no decompressor succeeded"; the errors of the
\* candidates are not passed on.
C4_FixedErrorSurfaces ==
  (pc = "threw" /\ attempts # <<>>) =>
    /\ error = "no decompressor succeeded"
    /\ \A i \in 1..Len(attempts) : attempts[i].what # error

C4_Witness ==
  /\ pc = "threw"
  /\ Len(attempts) >= 2
  /\ attempts[1].what # LastAttempt.what

\* the latest loop iteration ran guest code
GuestRan == emu.kind \in {"m68k", "ppc"}

\* the region of the latest guest set-up with the given name
RegionNamed(name) ==
  emu.regions[CHOOSE i \in 1..Len(emu.regions) : emu.regions[i].name = name]

DecompressedSize == ReadBE32(res_before.data, 8)

\* C5 as stated: for built-in and guest-code decompressors alike, the data
\* is replaced if and only if the decompressor ended cleanly and the length
\* of the output it produced equals decompressed_size.
C5_ReplacedIffLengthMatches ==
  attempts # <<>> =>
    (LastAttempt.result = "ok" <=>
       (emu.clean /\ FromNat(emu.produced) = DecompressedSize))

\* C5 amended: a built-in decompressor's output replaces the data if and
\* only if it returns without an error and its length equals
\* decompressed_size; a guest-code decompressor's output replaces the data if
\* and only if the guest ends cleanly and decompressed_size bytes can be read
\* back from the output region, the number of bytes the guest wrote not being
\* checked; in every other case the attempt failed and the resource is as it
\* was before the call.
C5_ReplacedIffCleanAndReadable ==
  attempts # <<>> =>
    /\ emu.kind = "none" => LastAttempt.result = "failed"
    /\ emu.kind = "internal" =>
         (LastAttempt.result = "ok" <=>
            (emu.clean /\ FromNat(emu.produced) = DecompressedSize))
    /\ GuestRan =>
         (LastAttempt.result = "ok" <=>
            (emu.clean /\ LeW(DecompressedSize, RegionNamed("output").size)))
    /\ LastAttempt.result = "ok" =>
         /\ FromNat(Len(res.data)) = DecompressedSize
         /\ \A i \in 1..Len(res.data) : res.data[i] = emu.output[i]
         /\ res.flags = (res_before.flags \ {"COMPRESSED"}) \cup {"DECOMPRESSED"}
    /\ LastAttempt.result = "failed" => res = res_before

C5_Witness ==
  /\ attempts # <<>>
  /\ emu.kind = "m68k"
  /\ LastAttempt.result = "ok"
  /\ emu.produced < Len(res.data)

\* C6: after a guest-code decompressor terminated cleanly, the resource's
\* data is the first decompressed_size bytes of the output region as the
\* guest left them, without the extra bytes, and the compressed flag is
\* cleared.
C6_CleanGuestOutputInstalled ==
  (GuestRan /\ emu.clean) =>
    /\ FromNat(Len(res.data)) = DecompressedSize
    /\ \A i \in 1..Len(res.data) : res.data[i] = emu.output[i]
    /\ "COMPRESSED" \notin res.flags

ClaimedEntryPC(d) ==
  IF <<d[5], d[6], d[7], d[8]>> = <<100, 99, 109, 112>>
    THEN <<61440, 0>>
    ELSE AddW(<<61440, 0>>, <<0, d[3] * 256 + d[4]>>)

InsideRegion(addr, r) == LeW(r.base, addr) /\ LtW(addr, RegionEnd(r))

\* the latest loop iteration set up a 68K run of a dcmp resource
DcmpRan == emu.kind = "m68k" /\ LastAttempt.candidate.type = "dcmp"

\* C8 as stated: the entry PC of a dcmp is the code base when bytes 4..7 are
\* 'dcmp' and otherwise the code base plus the big-endian word at offset 2,
\* and it always lies inside the loaded code region.
C8_EntryAlwaysInsideCode ==
  DcmpRan =>
    /\ emu.pc = ClaimedEntryPC(LastAttempt.candidate.data)
    /\ InsideRegion(emu.pc, RegionNamed("code"))

\* C8 amended: the entry PC of a dcmp is the code base when bytes 4..7 are
\* 'dcmp' and otherwise the code base plus the big-endian word at offset 2;
\* it lies inside the loaded code region exactly when that offset is smaller
\* than the length of the dcmp resource, which is not checked.
C8_EntryPC ==
  DcmpRan =>
    /\ emu.pc = ClaimedEntryPC(LastAttempt.candidate.data)
    /\ RegionNamed("code").base = <<61440, 0>>
    /\ InsideRegion(emu.pc, RegionNamed("code")) <=>
         (emu.pc[1] = 61440 /\ emu.pc[2] < Len(LastAttempt.candidate.data))

C8_Witness ==
  /\ DcmpRan
  /\ emu.pc = <<61440, 8>>
  /\ InsideRegion(emu.pc, RegionNamed("code"))

\* C9: at entry to a 68K decompressor A7 is the frame base, the frame lies
\* in the stack region and ends at its top, the return address stored at A7
\* is the address of the frame's reset_opcode field, which holds 0x4E70, and
\* the PC of a dcmp is the code base plus the entry offset.
C9_EntryFrame ==
  emu.kind = "m68k" =>
    LET stack == RegionNamed("stack")
        return_addr == <<emu.frame[1] * 256 + emu.frame[2], emu.frame[3] * 256 + emu.frame[4]>>
    IN /\ emu.started
       /\ stack.base = <<4096, 0>> /\ stack.size = <<0, 16384>>
       /\ Len(emu.frame) = 24
       /\ LeW(stack.base, emu.a7)
       /\ AddW(emu.a7, <<0, Len(emu.frame)>>) = RegionEnd(stack)
       /\ return_addr = AddW(emu.a7, <<0, 20>>)
       /\ <<emu.frame[21], emu.frame[22]>> = <<78, 112>>
       /\ LastAttempt.candidate.type = "dcmp" =>
            emu.pc = AddW(RegionNamed("code").base, <<0, emu.entry_offset>>)

C9_Witness ==
  /\ DcmpRan
  /\ emu.a7 = <<4096, 16360>>
  /\ emu.entry_offset = 8

\* C10: whenever a guest-code decompressor starts executing, the code
\* region, the 16 KiB stack, the output region of decompressed_size +
\* output_extra_bytes bytes, the working buffer of 256 times the compressed
\* size and the input region of the compressed size + 0x100 are pairwise
\* disjoint ranges of the 32-bit address space; a layout that is not possible
\* ends the attempt before the guest runs.
C10_RegionsDisjoint ==
  emu.started =>
    LET n == Len(res_before.data)
        names == {"code", "stack", "output", "working", "input"}
    IN /\ {emu.regions[i].name : i \in 1..Len(emu.regions)} = names
       /\ RegionNamed("stack").size = <<0, 16384>>
       /\ RegionNamed("output").size = AddW(DecompressedSize, <<0, output_extra_bytes>>)
       /\ RegionNamed("working").size = FromNat(n * 256)
       /\ RegionNamed("input").size = FromNat(n + 256)
       /\ \A a, b \in names : a # b => ~RegionsOverlap(RegionNamed(a), RegionNamed(b))
       /\ \A a \in names : LeW(RegionEnd(RegionNamed(a)), <<65536, 0>>)

\* ------------------------------------------------------------------------
\* A 68K guest under a syscall handler: registers, memory, A-line traps
\* ------------------------------------------------------------------------

\* largest number of A-line traps a guest executes in one run
MaxTraps == 3

RECURSIVE And16(_, _, _)
\* bitwise AND of the low n bits of a and b
And16(a, b, n) ==
  IF n = 0 THEN 0
  ELSE (IF (a % 2 = 1) /\ (b % 2 = 1) THEN 1 ELSE 0) + 2 * And16(a \div 2, b \div 2, n - 1)

\* a 32-bit value below 2^16, and its value as a number
Small(w) == w[1] = 0

Val(w) == w[2]

\* the handler's locals trap_number, auto_pop and flags
\* faulty variant: the auto-pop bit is kept in the trap number
shim_decode_keeps_pop(opcode) ==
  IF And16(opcode, 2048, 16) # 0
    THEN [trap_number |-> And16(opcode, 4095, 16),
          auto_pop |-> And16(opcode, 1024, 16) # 0, flags |-> 0]
    ELSE [trap_number |-> And16(opcode, 255, 16), auto_pop |-> FALSE,
          flags |-> And16(opcode \div 512, 3, 16)]

\* the handler's locals trap_number, auto_pop and flags (decompress_resource)
shim_decode(opcode) ==
  IF And16(opcode, 2048, 16) # 0
    THEN [trap_number |-> And16(opcode, 3071, 16),
          auto_pop |-> And16(opcode, 1024, 16) # 0, flags |-> 0]
    ELSE [trap_number |-> And16(opcode, 255, 16), auto_pop |-> FALSE,
          flags |-> And16(opcode \div 512, 3, 16)]

\* faulty variant: the flags are taken one bit lower
m68kexec_decode_low_flags(syscall) ==
  IF And16(syscall, 2048, 16) # 0
    THEN [trap_number |-> And16(syscall, 3071, 16),
          auto_pop |-> And16(syscall, 1024, 16) # 0, flags |-> 0]
    ELSE [trap_number |-> And16(syscall, 255, 16), auto_pop |-> FALSE,
          flags |-> And16(syscall \div 256, 3, 16)]

\* the handler's locals trap_number, auto_pop and flags (m68kexec)
m68kexec_decode(syscall) ==
  IF And16(syscall, 2048, 16) # 0
    THEN [trap_number |-> And16(syscall, 3071, 16),
          auto_pop |-> And16(syscall, 1024, 16) # 0, flags |-> 0]
    ELSE [trap_number |-> And16(syscall, 255, 16), auto_pop |-> FALSE,
          flags |-> And16(syscall \div 512, 3, 16)]

\* the guest's memory: mem maps each mapped address to its byte, blocks are
\* the regions of the MemoryContext
Mapped(mem, addr, size) == \A i \in 0..(size - 1) : (addr + i) \in DOMAIN mem

\* at(addr, size) of a 32-bit address and size: all mapped memory of the
\* model lies below 2^16
MappedW(mem, addr, size) ==
  Small(addr) /\ Small(size) /\ Mapped(mem, Val(addr), Val(size))

\* the arena MemoryContext::allocate takes its addresses from
HeapBase == 512

HeapSize == 16

\* the bytes a block of the given size takes: whole words, at least one
Reserved(size) == IF size = 0 THEN 4 ELSE 4 * ((size + 3) \div 4)

\* allocate(size): the lowest free place of the arena, or a failure
allocate(m, size) ==
  LET places == IF size >= HeapSize + 4 THEN {} ELSE
                  {a \in HeapBase..(HeapBase + HeapSize - 1) :
                   /\ (a - HeapBase) % 4 = 0
                   /\ a + Reserved(size) <= HeapBase + HeapSize
                   /\ \A i \in 0..(Reserved(size) - 1) : (a + i) \notin DOMAIN m.mem}
  IN IF places = {} THEN [ok |-> FALSE, addr |-> 0, m |-> m]
     ELSE LET a == CHOOSE p \in places : \A q \in places : p <= q
          IN [ok |-> TRUE, addr |-> a,
              m |-> [m EXCEPT !.mem = [x \in (DOMAIN m.mem) \cup (a..(a + Reserved(size) - 1)) |->
                                         IF x \in DOMAIN m.mem THEN m.mem[x] ELSE 0],
                              !.blocks = @ \cup {[base |-> a, size |-> size]}]]

\* a store of bytes at an address
WriteBytes(mem, addr, bytes) ==
  [x \in DOMAIN mem |-> IF x >= addr /\ x < addr + Len(bytes) THEN bytes[x - addr + 1] ELSE mem[x]]

ReadBytes(mem, addr, size) == [i \in 1..size |-> mem[addr + i - 1]]

RECURSIVE CopyAscending(_, _, _, _)
\* a copy that moves one byte at a time from the lowest address up
CopyAscending(mem, dst, src, n) ==
  IF n = 0 THEN mem
  ELSE CopyAscending([mem EXCEPT ![dst] = mem[src]], dst + 1, src + 1, n - 1)

RECURSIVE CopyDescending(_, _, _, _)
\* a copy that moves one byte at a time from the highest address down
CopyDescending(mem, dst, src, n) ==
  IF n = 0 THEN mem
  ELSE CopyDescending([mem EXCEPT ![dst + n - 1] = mem[src + n - 1]], dst, src, n - 1)

\* a copy that reads the whole source before it writes
CopyWhole(mem, dst, src, n) == WriteBytes(mem, dst, ReadBytes(mem, src, n))

RangesOverlap(a, b, n) == a < b + n /\ b < a + n

\* the C library's memcpy: its behaviour is undefined when the ranges
\* overlap, and then any of the copying orders can be what the build does
memcpy(mem, dst, src, n) ==
  IF RangesOverlap(dst, src, n)
    THEN {CopyAscending(mem, dst, src, n), CopyDescending(mem, dst, src, n),
          CopyWhole(mem, dst, src, n)}
    ELSE {CopyWhole(mem, dst, src, n)}

\* MemoryContext::memcpy(dst, src, size)
MemoryContext_memcpy(mem, dst, src, n) == CopyWhole(mem, dst, src, n)

\* an exception leaves the handler and ends the run
Faulted(m) == [m EXCEPT !.status = "failed"]


\* the trap number GetTrapAddress looks up: D0's low word, with the toolbox
\* bit set unless it names an OS trap
RequestedTrap(d0) ==
  LET t == And16(d0[2], 65535, 16)
  IN IF t > 79 /\ t # 84 /\ t # 87 THEN Or16(t, 2048, 16) ELSE t

\* the two words of a call stub
CallStub(trap_number) == BE16(Or16(40960, trap_number, 16)) \o BE16(20085)

\* faulty variant: a stub is made for every request
GetTrapAddress_uncached(m) ==
  LET t == RequestedTrap(m.d0)
      got == allocate(m, 4)
  IN IF ~got.ok THEN Faulted(m)
     ELSE [got.m EXCEPT !.mem = WriteBytes(got.m.mem, got.addr, CallStub(t)),
                        !.stubs = [k \in (DOMAIN m.stubs) \cup {t} |->
                                     IF k = t THEN got.addr ELSE m.stubs[k]],
                        !.a0 = FromNat(got.addr)]

\* the GetTrapAddress branch of the handler
GetTrapAddress(m) ==
  LET t == RequestedTrap(m.d0)
      got == allocate(m, 4)
  IN IF t \in DOMAIN m.stubs THEN [m EXCEPT !.a0 = FromNat(m.stubs[t])]
     ELSE IF ~got.ok THEN Faulted(m)
     ELSE [got.m EXCEPT !.mem = WriteBytes(got.m.mem, got.addr, CallStub(t)),
                        !.stubs = [k \in (DOMAIN m.stubs) \cup {t} |->
                                     IF k = t THEN got.addr ELSE m.stubs[k]],
                        !.a0 = FromNat(got.addr)]

\* the BlockMove branch of the handler in decompress_resource
shim_BlockMove(m) ==
  LET n == Val(m.d0)
      src == Val(m.a0)
      dst == Val(m.a1)
  IN IF ~MappedW(m.mem, m.a0, m.d0) \/ ~MappedW(m.mem, m.a1, m.d0) THEN {Faulted(m)}
     ELSE {[m EXCEPT !.mem = copied, !.d0 = <<0, 0>>] : copied \in memcpy(m.mem, dst, src, n)}

\* what the handler has decoded, kept for inspection after the trap
Entered(m, opcode, dec) ==
  [m EXCEPT !.opcode = opcode, !.trap_number = dec.trap_number,
            !.auto_pop = dec.auto_pop, !.flags = dec.flags, !.steps = @ + 1]

\* the handler decompress_resource installs: the machines it can leave
shim_syscall_handler(m, opcode) ==
  LET dec == shim_decode(opcode)
      m1 == Entered(m, opcode, dec)
  IN IF dec.trap_number = 46 THEN shim_BlockMove(m1)
     ELSE IF dec.trap_number = 70 THEN {GetTrapAddress(m1)}
     ELSE {m1}

\* the BlockMove branch of the handler of m68kexec
m68kexec_BlockMove(m) ==
  LET n == Val(m.d0)
      src == Val(m.a0)
      dst == Val(m.a1)
  IN IF ~MappedW(m.mem, m.a0, m.d0) \/ ~MappedW(m.mem, m.a1, m.d0) THEN Faulted(m)
     ELSE [m EXCEPT !.mem = MemoryContext_memcpy(m.mem, dst, src, n), !.d0 = <<0, 0>>]

NewPtr(m) ==
  LET got == allocate(m, Val(m.d0))
  IN IF ~Small(m.d0) \/ ~got.ok THEN Faulted(m)
     ELSE [got.m EXCEPT !.a0 = FromNat(got.addr), !.d0 = <<0, 0>>]

NewHandle(m) ==
  LET size == Trunc32(AddW(m.d0, FromNat(4)))
      got == allocate(m, Val(size))
  IN IF ~Small(size) \/ ~got.ok THEN Faulted(m)
     ELSE [got.m EXCEPT !.a0 = FromNat(got.addr),
                        !.mem = WriteBytes(got.m.mem, got.addr, BE32(FromNat(got.addr + 4))),
                        !.d0 = <<0, 0>>]

\* get_block_size(addr): the length of the region whose base is addr
HasBlockAt(m, addr) == \E b \in m.blocks : b.base = addr

get_block_size(m, addr) == (CHOOSE b \in m.blocks : b.base = addr).size

\* -111 as a 32-bit value
memWZErr == <<W16 - 1, W16 - 111>>

GetHandleSize(m) ==
  IF ~MappedW(m.mem, m.a0, <<0, 4>>) THEN Faulted(m)
  ELSE LET p == ReadBE32(ReadBytes(m.mem, Val(m.a0), 4), 0)
       IN IF p[1] = 0 /\ HasBlockAt(m, p[2])
            THEN [m EXCEPT !.d0 = FromNat(get_block_size(m, p[2]))]
            ELSE [m EXCEPT !.d0 = memWZErr]

\* the handler m68kexec installs for a 68K guest
m68kexec_syscall_handler(m, syscall) ==
  LET dec == m68kexec_decode(syscall)
      m1 == Entered(m, syscall, dec)
  IN IF dec.trap_number = 30 THEN NewPtr(m1)
     ELSE IF dec.trap_number = 34 THEN NewHandle(m1)
     ELSE IF dec.trap_number = 37 THEN GetHandleSize(m1)
     ELSE IF dec.trap_number = 41 \/ dec.trap_number = 42 THEN [m1 EXCEPT !.d0 = <<0, 0>>]
     ELSE IF dec.trap_number = 46 THEN m68kexec_BlockMove(m1)
     ELSE Faulted(m1)

\* --- the guest ---

\* the opcodes the guest executes in the model: BlockMove, GetTrapAddress
\* and _Unimplemented as OS traps with and without flag bits, a toolbox trap
\* with and without the auto-pop bit, and the traps only m68kexec knows
Opcodes == {40960 + 46, 40960 + 512 + 46, 40960 + 70, 40960 + 159,
            40960 + 2048 + 46, 40960 + 2048 + 1024 + 46,
            40960 + 30, 40960 + 34, 40960 + 37, 40960 + 41}

\* every A-line opcode
ALineOpcodes == {40960 + i : i \in 0..4095}

\* what the guest leaves in D0, A0 and A1 before a trap: the arguments of a
\* BlockMove (source, destination and length, apart, overlapping or
\* unmapped), or of a GetTrapAddress (a trap number in D0)
GuestRegisters ==
  {[d0 |-> FromNat(n), a0 |-> FromNat(s), a1 |-> FromNat(d)] :
     n \in {2, 4}, s \in {256, 258}, d \in {256, 258, 260, 768}} \cup
  {[d0 |-> d, a0 |-> <<0, 256>>, a1 |-> <<0, 260>>] :
     d \in {<<0, 46>>, <<0, 80>>, <<0, 84>>, <<0, 2048 + 80>>, <<1, 46>>,
            <<0, 4096>>, <<0, 1024 + 80>>}}

\* a guest that has just been started under the given handler, with eight
\* bytes of data of its own
StartedMachine(handler) ==
  [NoMachine EXCEPT !.handler = handler, !.status = "running",
                    !.d0 = <<0, 2>>, !.d1 = <<4660, 22136>>,
                    !.a0 = <<0, 256>>, !.a1 = <<0, 260>>,
                    !.mem = [a \in 256..263 |-> a - 255],
                    !.blocks = {[base |-> 256, size |-> 8]}]

\* decompress_resource has not been called
ShimIdle ==
  /\ id_to_res = EmptyCache
  /\ files = {}
  /\ res = [flags |-> {}, data |-> <<>>]
  /\ decompress_flags = {}
  /\ context_rf = [null |-> TRUE, resources |-> {}]
  /\ pc = "idle"
  /\ error = ""
  /\ dcmp_resource_id = 0
  /\ output_extra_bytes = 0
  /\ dcmp_resources = <<>>
  /\ z = 0
  /\ attempts = <<>>
  /\ emu = NoEmu
  /\ res_before = [flags |-> {}, data |-> <<>>]
  /\ lookup = NoLookup

shimVars == <<id_to_res, files, res, decompress_flags, context_rf, pc, error,
              dcmp_resource_id, output_extra_bytes, dcmp_resources, z, attempts,
              emu, res_before, lookup>>

TrapInit ==
  /\ ShimIdle
  /\ qd = NoRegion
  /\ machine \in {StartedMachine("shim"), StartedMachine("m68kexec")}
  /\ alu = NoAlu
  /\ exec = NoExec

\* the guest's own instructions between two traps
GuestRuns ==
  /\ machine.status = "running"
  /\ machine.steps < MaxTraps
  /\ \E r \in GuestRegisters :
       machine' = [machine EXCEPT !.d0 = r.d0, !.a0 = r.a0, !.a1 = r.a1]
  /\ UNCHANGED <<shimVars, alu, exec, qd>>

\* the guest executes an A-line opcode under decompress_resource's handler
ShimSyscall ==
  /\ machine.handler = "shim"
  /\ machine.status = "running"
  /\ machine.steps < MaxTraps
  /\ \E opcode \in Opcodes : machine' \in shim_syscall_handler(machine, opcode)
  /\ UNCHANGED <<shimVars, alu, exec, qd>>

\* the guest executes an A-line opcode under m68kexec's handler
M68kexecSyscall ==
  /\ machine.handler = "m68kexec"
  /\ machine.status = "running"
  /\ machine.steps < MaxTraps
  /\ \E syscall \in Opcodes : machine' = m68kexec_syscall_handler(machine, syscall)
  /\ UNCHANGED <<shimVars, alu, exec, qd>>

TrapNext ==
  \/ GuestRuns
  \/ ShimSyscall
  \/ M68kexecSyscall

SpecTrap == TrapInit /\ [][TrapNext]_vars

\* the first instruction of the guest is an A-line opcode, whichever
FirstSyscallShim ==
  /\ machine.handler = "shim"
  /\ machine.status = "running"
  /\ machine.steps = 0
  /\ \E opcode \in ALineOpcodes : machine' \in shim_syscall_handler(machine, opcode)
  /\ UNCHANGED <<shimVars, alu, exec, qd>>

FirstSyscallM68kexec ==
  /\ machine.handler = "m68kexec"
  /\ machine.status = "running"
  /\ machine.steps = 0
  /\ \E syscall \in ALineOpcodes : machine' = m68kexec_syscall_handler(machine, syscall)
  /\ UNCHANGED <<shimVars, alu, exec, qd>>

DecodeNext ==
  \/ FirstSyscallShim
  \/ FirstSyscallM68kexec

SpecDecode == TrapInit /\ [][DecodeNext]_vars


\* --- properties of the syscall handlers ---

\* the latest step was a trap, handled by the named handler
Trapped(handler) == machine.handler = handler /\ machine.steps > 0

\* the step executes a trap that the handler decodes to the given number
TrapStep(handler, number) ==
  /\ machine.handler = handler
  /\ machine'.steps = machine.steps + 1
  /\ machine'.trap_number = number

\* C11: whichever A-line opcode a guest executes, under either handler: with
\* bit 11 set the handler's trap number is the opcode's bits 0..9 and bit 11,
\* and auto-pop is bit 10; with bit 11 clear the trap number is the opcode's
\* low byte; the two handlers decode the opcode to the same values, and the
\* opcode with its auto-pop bit flipped has the same trap number
C11_TrapDecoding ==
  machine.steps > 0 =>
    LET o == machine.opcode
        toolbox == (o \div 2048) % 2 = 1
        pop == (o \div 1024) % 2 = 1
        flipped == IF pop THEN o - 1024 ELSE o + 1024
    IN /\ toolbox => /\ machine.trap_number = 2048 + (o % 1024)
                     /\ machine.auto_pop = pop
                     /\ shim_decode(flipped).trap_number = machine.trap_number
                     /\ m68kexec_decode(flipped).trap_number = machine.trap_number
       /\ ~toolbox => machine.trap_number = o % 256
       /\ shim_decode(o) = m68kexec_decode(o)
       /\ machine.handler = "shim" => shim_decode(o).trap_number = machine.trap_number
       /\ machine.handler = "m68kexec" => m68kexec_decode(o).trap_number = machine.trap_number

\* a toolbox opcode with the auto-pop bit, 0xAC2E, was decoded by the shim
C11_Witness ==
  /\ Trapped("shim")
  /\ machine.opcode = 40960 + 2048 + 1024 + 46
  /\ machine.trap_number = 2048 + 46
  /\ machine.auto_pop

\* both ranges of a BlockMove are mapped
BlockMoveRangesMapped ==
  MappedW(machine.mem, machine.a0, machine.d0) /\ MappedW(machine.mem, machine.a1, machine.d0)

\* what the claim says a BlockMove step does
BlockMoveEffect ==
  LET n == Val(machine.d0)
      src == Val(machine.a0)
      dst == Val(machine.a1)
  IN /\ machine'.status = "running"
     /\ DOMAIN machine'.mem = DOMAIN machine.mem
     /\ ReadBytes(machine'.mem, dst, n) = ReadBytes(machine.mem, src, n)
     /\ \A x \in DOMAIN machine.mem :
          (x < dst \/ x >= dst + n) => machine'.mem[x] = machine.mem[x]
     /\ machine'.d0 = <<0, 0>>
     /\ machine'.d1 = machine.d1
     /\ machine'.a0 = machine.a0
     /\ machine'.a1 = machine.a1

\* C12: under either handler, a BlockMove trap whose source and destination
\* ranges are mapped leaves at A1 the D0 bytes that were at A0 before the
\* trap, sets D0 to 0 and changes no other register and no other memory
C12_BlockMove ==
  [][((TrapStep("shim", 46) \/ TrapStep("m68kexec", 46)) /\ BlockMoveRangesMapped)
       => BlockMoveEffect]_vars

\* the stub A0 points at, as two big-endian words
StubWords(m) ==
  LET bytes == ReadBytes(m.mem, Val(m.a0), 4)
  IN <<ReadBE16(bytes, 0), ReadBE16(bytes, 2)>>

\* the latest trap of the guest was a GetTrapAddress answered by the shim
AnsweredGetTrapAddress ==
  Trapped("shim") /\ machine.trap_number = 70 /\ machine.status = "running"

\* C13: whatever D0 holds, a GetTrapAddress in the shim leaves in A0 the
\* address of four mapped bytes: an A-line opcode (high nibble 0xA) that the
\* handler decodes to the requested trap number, then RTS (0x4E75)
C13_StubForEveryD0 ==
  [][TrapStep("shim", 70) =>
       /\ machine'.status = "running"
       /\ MappedW(machine'.mem, machine'.a0, <<0, 4>>)
       /\ StubWords(machine')[1] \div 4096 = 10
       /\ shim_decode(StubWords(machine')[1]).trap_number = RequestedTrap(machine.d0)
       /\ StubWords(machine')[2] = 20085]_vars

\* the stubs of the cache lie at different addresses
StubsApart(m) ==
  \A j, k \in DOMAIN m.stubs : j # k => m.stubs[j] # m.stubs[k]

\* the blocks of the heap
HeapBlocks(m) == {b \in m.blocks : b.base >= HeapBase}

\* C14: a GetTrapAddress of the shim allocates a stub only for a trap number
\* that has none, and then exactly one; it answers a trap number that has a
\* stub with that stub's address; stubs of different trap numbers lie at
\* different addresses; no stub changes its address or its bytes
C14_OneStubPerTrap ==
  [][TrapStep("shim", 70) =>
       LET t == RequestedTrap(machine.d0)
       IN /\ t \in DOMAIN machine.stubs =>
               /\ machine'.a0 = FromNat(machine.stubs[t])
               /\ machine'.stubs = machine.stubs
               /\ machine'.mem = machine.mem
               /\ machine'.blocks = machine.blocks
               /\ machine'.status = "running"
          /\ (t \notin DOMAIN machine.stubs /\ machine'.status = "running") =>
               /\ DOMAIN machine'.stubs = DOMAIN machine.stubs \cup {t}
               /\ machine'.a0 = FromNat(machine'.stubs[t])
               /\ Cardinality(HeapBlocks(machine')) = Cardinality(HeapBlocks(machine)) + 1
          /\ \A k \in DOMAIN machine.stubs :
               /\ k \in DOMAIN machine'.stubs
               /\ machine'.stubs[k] = machine.stubs[k]
               /\ ReadBytes(machine'.mem, machine.stubs[k], 4) =
                    ReadBytes(machine.mem, machine.stubs[k], 4)
          /\ StubsApart(machine')
          /\ Cardinality(HeapBlocks(machine')) = Cardinality(DOMAIN machine'.stubs)]_vars

\* three GetTrapAddress calls have made two stubs, and the last call was
\* answered with the stub made first
C14_Witness ==
  /\ AnsweredGetTrapAddress
  /\ machine.steps = 3
  /\ Cardinality(DOMAIN machine.stubs) = 2
  /\ Cardinality(HeapBlocks(machine)) = 2
  /\ machine.a0 = FromNat(HeapBase)
  /\ StubsApart(machine)

\* C15: in the shim a trap other than BlockMove and GetTrapAddress raises no
\* error, changes no memory and leaves 0 in D0
C15_OtherTrapsSucceed ==
  [][(machine.handler = "shim" /\ machine'.steps = machine.steps + 1
        /\ machine'.trap_number # 46 /\ machine'.trap_number # 70)
       => /\ machine'.status = "running"
          /\ machine'.mem = machine.mem
          /\ machine'.d0 = <<0, 0>>]_vars

\* --- properties of a PowerPC run ---

\* the four bytes of the frame at the given address
FrameWord(addr) ==
  LET off == addr[2] - emu.r1[2]
  IN SubSeq(emu.frame, off + 1, off + 4)

\* C16: a PowerPC run ends cleanly exactly when the guest executes a syscall
\* with R2 = 0xFFFFFFFF; a syscall with another R2 fails the attempt; LR at
\* entry is the address, inside the frame at the top of the stack region, of
\* the opcode li r2, -1 (0x3840FFFF), and the opcode after it is sc
\* (0x44000002)
C16_PpcTermination ==
  emu.kind = "ppc" =>
    /\ emu.started
    /\ emu.clean <=> (emu.ended = "syscall" /\ emu.syscall_r2 = <<65535, 65535>>)
    /\ (emu.ended = "syscall" /\ emu.syscall_r2 # <<65535, 65535>>) =>
         /\ LastAttempt.result = "failed"
         /\ LastAttempt.what = "unimplemented syscall"
    /\ Len(emu.frame) = 40
    /\ AddW(emu.r1, <<0, Len(emu.frame)>>) = RegionEnd(RegionNamed("stack"))
    /\ LeW(emu.r1, emu.lr)
    /\ LeW(AddW(emu.lr, <<0, 8>>), RegionEnd(RegionNamed("stack")))
    /\ FrameWord(emu.lr) = <<56, 64, 255, 255>>
    /\ FrameWord(AddW(emu.lr, <<0, 4>>)) = <<68, 0, 0, 2>>
    /\ ReadBE32(emu.frame, 8) = emu.lr

\* a PowerPC decompressor returned to the frame and its syscall ended the run
C16_Witness ==
  /\ emu.kind = "ppc"
  /\ emu.clean
  /\ emu.ended = "syscall"
  /\ emu.syscall_r2 = <<65535, 65535>>
  /\ emu.lr = <<4096, 16376>>
  /\ LastAttempt.result = "ok"

\* ------------------------------------------------------------------------
\* Calls of decompress_resource with decompressors that are programs
\* ------------------------------------------------------------------------

\* A decompressor does the same thing whenever it is given the same input.
\* The programs of this specification: the built-in decompressors return two
\* bytes; a dcmp whose entry point lies in its code fills the output region
\* and returns to the frame's RESET; any other guest program faults.
BuiltinProgramOutput == <<33, 34>>

CodeRegion(e) == e.regions[CHOOSE i \in 1..Len(e.regions) : e.regions[i].name = "code"]

ProgramEnding(candidate, e) ==
  IF candidate.type = "dcmp" /\ InsideRegion(e.pc, CodeRegion(e)) THEN "reset" ELSE "fault"

\* the latest loop iteration ran its decompressor as the programs prescribe
RunsAsProgrammed ==
  attempts # <<>> =>
    /\ emu.kind = "internal" => (emu.clean /\ emu.output = BuiltinProgramOutput)
    /\ emu.started =>
         /\ emu.ended = ProgramEnding(LastAttempt.candidate, emu)
         /\ emu.clean => emu.produced = Len(emu.output)

RerunInternal == AttemptInternal /\ RunsAsProgrammed'

RerunGuest == AttemptGuest /\ RunsAsProgrammed'

RerunNext ==
  \/ decompress_resource
  \/ CallerContinues
  \/ RerunInternal
  \/ RerunGuest
  \/ NoDecompressorSucceeded

SpecRerun == Init /\ [][RerunNext]_vars

\* --- what a call gives in a process that has made no call before ---

\* the candidate would decompress the data
ProgramSucceeds(candidate, data, extra, id) ==
  IF candidate = NullResource
    THEN id \in 0..3 /\ ~WrongAmount(BuiltinProgramOutput, data)
    ELSE LET setup == GuestSetup(candidate, data, extra, CHOOSE p \in PeffOutcomes : p.ok)
         IN /\ candidate.type = "dcmp"
            /\ setup.ok
            /\ ProgramEnding(candidate, setup.emu) = "reset"
            /\ CanRead(setup.emu.regions, output_addr, header_decompressed_size(data))

ProgramOutput(candidate, data, extra) ==
  IF candidate = NullResource THEN BuiltinProgramOutput
  ELSE LET n == output_region_size(data, extra)[2]
       IN ReadOutput([output |-> GuestOutput(n, n)], header_decompressed_size(data))

\* the result of the first call of a process: how it ends and the data it
\* leaves in the resource
FirstRun(data, dflags, rf, fs) ==
  LET id == HeaderDcmpResourceId(data)
      extra == HeaderOutputExtraBytes(data)
      list == BuildCandidates(EmptyCache, fs, dflags, rf, id).list
      winners == {i \in 1..Len(list) : ProgramSucceeds(list[i], data, extra, id)}
  IN IF winners = {} THEN [pc |-> "threw", data |-> data]
     ELSE LET first == CHOOSE i \in winners : \A j \in winners : i <= j
          IN [pc |-> "returned", data |-> ProgramOutput(list[first], data, extra)]

\* the call got past the header checks and has ended
EndedAfterHeader ==
  /\ pc \in {"returned", "threw"}
  /\ NotSkipped
  /\ ~HeaderTooSmall(res_before.data)
  /\ ~MagicMismatch(res_before.data)
  /\ HasCompressionAttribute(res_before.data)
  /\ VersionSupported(res_before.data)

\* C17: a call of decompress_resource ends as the same call ends in a
\* process that has made no call before, and leaves the same bytes in the
\* resource: with the same resource, flags and decompressors available, the
\* result does not depend on what earlier calls have left behind
C17_ResultIndependentOfEarlierRuns ==
  EndedAfterHeader =>
    LET first == FirstRun(res_before.data, decompress_flags, context_rf, files)
    IN pc = first.pc /\ res.data = first.data

\* ------------------------------------------------------------------------
\* M68KRegisters: the condition-code helpers of integer add and subtract
\* ------------------------------------------------------------------------

\* 2^(8 * size) as a 32-bit pair with room for the carry
Limit(size) ==
  IF size = 1 THEN <<0, 256>> ELSE IF size = 2 THEN <<1, 0>> ELSE <<W16, 0>>

\* the low size bytes of a value
TruncTo(v, size) ==
  IF size = 1 THEN <<0, v[2] % 256>>
  ELSE IF size = 2 THEN <<0, v[2]>>
  ELSE <<v[1] % W16, v[2]>>

\* the sign bit of a value of the given size
SignBit(v, size) ==
  IF size = 1 THEN v[2] >= 128
  ELSE IF size = 2 THEN v[2] >= W16 \div 2
  ELSE v[1] >= W16 \div 2

\* a - b for a >= b
SubW(a, b) ==
  IF a[2] >= b[2] THEN <<a[1] - b[1], a[2] - b[2]>>
  ELSE <<a[1] - b[1] - 1, a[2] + W16 - b[2]>>

\* faulty variant: the overflow rule of subtract
set_ccr_flags_integer_add_sub_rule(left_value, right_value, size) ==
  LET l == TruncTo(left_value, size)
      r == TruncTo(right_value, size)
      us == AddW(l, r)
      s == TruncTo(us, size)
      c == LeW(Limit(size), us)
  IN [op |-> "add", left |-> left_value, right |-> right_value, size |-> size,
      result |-> s,
      x |-> c,
      n |-> SignBit(s, size),
      z |-> s = <<0, 0>>,
      v |-> (SignBit(l, size) # SignBit(r, size)) /\ (SignBit(s, size) # SignBit(l, size)),
      c |-> c]

\* set_ccr_flags_integer_add: the operands at the given size, their sum S, the
\* unsigned sum uS and the five flags
set_ccr_flags_integer_add(left_value, right_value, size) ==
  LET l == TruncTo(left_value, size)
      r == TruncTo(right_value, size)
      us == AddW(l, r)
      s == TruncTo(us, size)
      c == LeW(Limit(size), us)
  IN [op |-> "add", left |-> left_value, right |-> right_value, size |-> size,
      result |-> s,
      x |-> c,
      n |-> SignBit(s, size),
      z |-> s = <<0, 0>>,
      v |-> (SignBit(l, size) = SignBit(r, size)) /\ (SignBit(s, size) # SignBit(l, size)),
      c |-> c]

\* faulty variant: the borrow is taken from the wrong operand
set_ccr_flags_integer_subtract_swapped(left_value, right_value, size) ==
  LET l == TruncTo(left_value, size)
      r == TruncTo(right_value, size)
      borrow == LtW(l, r)
      s == IF borrow THEN SubW(AddW(l, Limit(size)), r) ELSE SubW(l, r)
      c == LtW(r, l)
  IN [op |-> "subtract", left |-> left_value, right |-> right_value, size |-> size,
      result |-> s,
      x |-> c,
      n |-> SignBit(s, size),
      z |-> s = <<0, 0>>,
      v |-> (SignBit(l, size) # SignBit(r, size)) /\ (SignBit(s, size) # SignBit(l, size)),
      c |-> c]

\* set_ccr_flags_integer_subtract: the flags of left - right
set_ccr_flags_integer_subtract(left_value, right_value, size) ==
  LET l == TruncTo(left_value, size)
      r == TruncTo(right_value, size)
      borrow == LtW(l, r)
      s == IF borrow THEN SubW(AddW(l, Limit(size)), r) ELSE SubW(l, r)
      c == borrow
  IN [op |-> "subtract", left |-> left_value, right |-> right_value, size |-> size,
      result |-> s,
      x |-> c,
      n |-> SignBit(s, size),
      z |-> s = <<0, 0>>,
      v |-> (SignBit(l, size) # SignBit(r, size)) /\ (SignBit(s, size) # SignBit(l, size)),
      c |-> c]

\* the int32_t arguments of the model: the ends and the middle of the ranges
\* of each size, and values with bits above the size
Operands ==
  {<<0, 0>>, <<0, 1>>, <<0, 127>>, <<0, 128>>, <<0, 255>>, <<0, 256>>,
   <<0, 32767>>, <<0, 32768>>, <<0, 65535>>, <<1, 0>>, <<32767, 65535>>,
   <<32768, 0>>, <<32768, 1>>, <<65535, 65535>>, <<4660, 22136>>, <<65535, 65408>>}

Sizes == {1, 2, 4}

\* the caller has the operands and the size at hand
AluInit ==
  /\ ShimIdle
  /\ qd = NoRegion
  /\ machine = NoMachine
  /\ exec = NoExec
  /\ alu \in {[NoAlu EXCEPT !.left = l, !.right = r, !.size = s] :
                l \in Operands, r \in Operands, s \in Sizes}

IntegerAdd ==
  /\ alu.op = "none"
  /\ alu' = set_ccr_flags_integer_add(alu.left, alu.right, alu.size)
  /\ UNCHANGED <<shimVars, machine, exec, qd>>

IntegerSubtract ==
  /\ alu.op = "none"
  /\ alu' = set_ccr_flags_integer_subtract(alu.left, alu.right, alu.size)
  /\ UNCHANGED <<shimVars, machine, exec, qd>>

AluNext ==
  \/ IntegerAdd
  \/ IntegerSubtract

SpecAlu == AluInit /\ [][AluNext]_vars

\* --- properties of the condition-code helpers ---

\* For sizes 1 and 2 the operands are read as integers.  For size 4 they are
\* read as a signed high half and an unsigned low half, and sums and
\* differences are formed half by half, so that no number leaves the range
\* of the checker's integers.
Unsigned(v, size) == IF size = 1 THEN v[2] % 256 ELSE v[2]

Signed(v, size) ==
  LET u == Unsigned(v, size)
      half == IF size = 1 THEN 128 ELSE W16 \div 2
  IN IF u >= half THEN u - 2 * half ELSE u

SignedHigh(v) == IF v[1] >= W16 \div 2 THEN v[1] - W16 ELSE v[1]

\* the signed sum or difference of the operands lies outside the range of the
\* size
SignedOutOfRange(op, size) ==
  IF size = 4
    THEN LET low == IF op = "add" THEN alu.left[2] + alu.right[2]
                    ELSE alu.left[2] - alu.right[2]
             carry == IF low >= W16 THEN 1 ELSE IF low < 0 THEN -1 ELSE 0
             high == IF op = "add"
                       THEN SignedHigh(alu.left) + SignedHigh(alu.right) + carry
                       ELSE SignedHigh(alu.left) - SignedHigh(alu.right) + carry
         IN high < -(W16 \div 2) \/ high >= W16 \div 2
    ELSE LET t == IF op = "add"
                    THEN Signed(alu.left, size) + Signed(alu.right, size)
                    ELSE Signed(alu.left, size) - Signed(alu.right, size)
             half == IF size = 1 THEN 128 ELSE W16 \div 2
         IN t < -half \/ t >= half

\* the operand is negative at the size
Negative(v, size) == IF size = 4 THEN SignedHigh(v) < 0 ELSE Signed(v, size) < 0

\* the unsigned sum does not fit the size
UnsignedCarry(size) ==
  IF size = 4
    THEN LET low == alu.left[2] + alu.right[2]
         IN alu.left[1] + alu.right[1] + (low \div W16) >= W16
    ELSE Unsigned(alu.left, size) + Unsigned(alu.right, size) >= Limit(size)[1] * W16 + Limit(size)[2]

\* the unsigned left operand is smaller than the right one
UnsignedBorrow(size) ==
  IF size = 4
    THEN alu.left[1] < alu.right[1] \/ (alu.left[1] = alu.right[1] /\ alu.left[2] < alu.right[2])
    ELSE Unsigned(alu.left, size) < Unsigned(alu.right, size)

\* the result is the sum of the operands, modulo 2^(8 * size)
IsSum(size) ==
  IF size = 4
    THEN LET low == alu.left[2] + alu.right[2]
         IN /\ alu.result[2] = low % W16
            /\ alu.result[1] = (alu.left[1] + alu.right[1] + (low \div W16)) % W16
    ELSE /\ alu.result[1] = 0
         /\ alu.result[2] = (Unsigned(alu.left, size) + Unsigned(alu.right, size))
                              % (IF size = 1 THEN 256 ELSE W16)

\* the result is the difference of the operands, modulo 2^(8 * size)
IsDifference(size) ==
  IF size = 4
    THEN LET low == alu.left[2] - alu.right[2]
             b == IF low < 0 THEN 1 ELSE 0
         IN /\ alu.result[2] = (low + W16) % W16
            /\ alu.result[1] = (alu.left[1] - alu.right[1] - b + W16) % W16
    ELSE LET m == IF size = 1 THEN 256 ELSE W16
         IN /\ alu.result[1] = 0
            /\ alu.result[2] = (Unsigned(alu.left, size) - Unsigned(alu.right, size) + m) % m

\* C18: after the integer-add helper, at each size: the result is the sum
\* cut to the size, N is its sign, Z says it is 0, V is
\* ((L<0) = (R<0)) and ((S<0) # (L<0)), which is the case exactly when the
\* signed sum leaves the range of the size, C is the carry of the unsigned
\* sum and X equals C; 0x7FFF + 0x0001 at size 2 gives 0x8000 with N and V
\* set and Z, C and X clear
C18_AddFlags ==
  alu.op = "add" =>
    LET sz == alu.size
    IN /\ IsSum(sz)
       /\ alu.n = Negative(alu.result, sz)
       /\ alu.z = (alu.result = <<0, 0>>)
       /\ alu.v = ((Negative(alu.left, sz) = Negative(alu.right, sz))
                     /\ (Negative(alu.result, sz) # Negative(alu.left, sz)))
       /\ alu.v = SignedOutOfRange("add", sz)
       /\ alu.c = UnsignedCarry(sz)
       /\ alu.x = alu.c
       /\ (alu.left = <<0, 32767>> /\ alu.right = <<0, 1>> /\ sz = 2) =>
            (alu.result = <<0, 32768>> /\ alu.n /\ ~alu.z /\ alu.v /\ ~alu.c /\ ~alu.x)

\* the helper has been called with 0x7FFF and 0x0001 at size 2
C18_Witness ==
  /\ alu.op = "add"
  /\ alu.left = <<0, 32767>> /\ alu.right = <<0, 1>> /\ alu.size = 2
  /\ alu.result = <<0, 32768>>
  /\ alu.v

\* C19: after the integer-subtract helper, at each size: the result is
\* L - R cut to the size, N is its sign, Z says it is 0, V is
\* ((L<0) # (R<0)) and ((S<0) # (L<0)), which is the case exactly when the
\* signed difference leaves the range of the size, C is the borrow of the
\* unsigned difference and X equals C; 0x00 - 0x01 at size 1 gives 0xFF with
\* N, C and X set and Z and V clear
C19_SubtractFlags ==
  alu.op = "subtract" =>
    LET sz == alu.size
    IN /\ IsDifference(sz)
       /\ alu.n = Negative(alu.result, sz)
       /\ alu.z = (alu.result = <<0, 0>>)
       /\ alu.v = ((Negative(alu.left, sz) # Negative(alu.right, sz))
                     /\ (Negative(alu.result, sz) # Negative(alu.left, sz)))
       /\ alu.v = SignedOutOfRange("subtract", sz)
       /\ alu.c = UnsignedBorrow(sz)
       /\ alu.x = alu.c
       /\ (alu.left = <<0, 0>> /\ alu.right = <<0, 1>> /\ sz = 1) =>
            (alu.result = <<0, 255>> /\ alu.n /\ ~alu.z /\ ~alu.v /\ alu.c /\ alu.x)

\* the helper has been called with 0x00 and 0x01 at size 1
C19_Witness ==
  /\ alu.op = "subtract"
  /\ alu.left = <<0, 0>> /\ alu.right = <<0, 1>> /\ alu.size = 1
  /\ alu.result = <<0, 255>>
  /\ alu.c

\* ------------------------------------------------------------------------
\* m68kexec: main_t from the parsed command line to emu.execute()
\* ------------------------------------------------------------------------

\* largest number of --push options on the command line
MaxPush == 3

\* a - b for 32-bit values, modulo 2^32
SubW32(a, b) == Trunc32(SubW(AddW(a, AddressSpaceSize), b))

\* the address as a number, for addresses below 2^31
Addr(w) == w[1] * W16 + w[2]

\* the bytes of the range lie in one region of the MemoryContext
ExecMapped(regions, addr, size) ==
  /\ addr[1] < W16 \div 2
  /\ \E r \in regions : r.base <= Addr(addr) /\ Addr(addr) + size <= r.base + r.size

\* a store of bytes at an address; bytes never written read as 0
ExecWrite(mem, addr, bytes) ==
  [x \in (DOMAIN mem) \cup (addr..(addr + Len(bytes) - 1)) |->
     IF x >= addr /\ x < addr + Len(bytes) THEN bytes[x - addr + 1] ELSE mem[x]]

ExecReadByte(mem, x) == IF x \in DOMAIN mem THEN mem[x] ELSE 0

\* write_u32l
LE32(v) == <<v[2] % 256, v[2] \div 256, v[1] % 256, v[1] \div 256>>

\* write_u32l or write_u32b, as EmuT::is_little_endian says
StackWord(little, value) == IF little THEN LE32(value) ELSE BE32(value)

\* the size of the stack region main_t creates, 0x10000
stack_size == W16

\* where MemoryContext::allocate puts the stack region
AutoStackBase == 2 * W16

\* faulty variant: the values are taken from the end of the list
NextToPush_reversed(values, pushed) == values[Len(values) - pushed]

\* the value the next iteration of the push loop takes
NextToPush(values, pushed) == values[pushed + 1]

\* the command lines of the model
PushValues == {<<0, 1>>, <<0, 2>>, <<57005, 48879>>}

RECURSIVE SeqsUpTo(_, _)
SeqsUpTo(set, n) ==
  IF n = 0 THEN {<<>>}
  ELSE LET shorter == SeqsUpTo(set, n - 1)
       IN shorter \cup {Append(q, v) : q \in {t \in shorter : Len(t) = n - 1}, v \in set}

\* --mem=1000:10
SegmentChoices == {<<>>, <<[addr |-> 4096, size |-> 16]>>}

\* --reg=A7:VALUE, 0 when the option is absent
SpChoices == {<<0, 0>>, <<0, 4112>>, <<0, 4104>>, <<0, 4>>}

\* --load-state=FILENAME: a state whose stack pointer is the end of its one
\* region
StateChoices ==
  {[given |-> FALSE, sp |-> <<0, 0>>, regions |-> {}],
   [given |-> TRUE, sp |-> <<0, 8208>>, regions |-> {[base |-> 8192, size |-> 16]}]}

\* --patch=ADDR/DATA: none, one at the bottom of the segment, one in its top
\* word, one outside every region
PatchChoices ==
  {{}, {[addr |-> 4096, data |-> <<9, 9>>]}, {[addr |-> 4108, data |-> <<7, 7, 7, 7>>]},
   {[addr |-> 12288, data |-> <<9>>]}}

ExecInit ==
  /\ ShimIdle
  /\ qd = NoRegion
  /\ machine = NoMachine
  /\ alu = NoAlu
  /\ exec \in {[NoExec EXCEPT !.phase = "parsed", !.little = l, !.values_to_push = v,
                              !.segment_defs = g, !.reg_sp = s, !.state = f,
                              !.patches = p] :
                 l \in BOOLEAN, v \in SeqsUpTo(PushValues, MaxPush),
                 g \in SegmentChoices, s \in SpChoices, f \in StateChoices,
                 p \in PatchChoices}

ExecStep(e) == exec' = e /\ UNCHANGED <<shimVars, machine, alu, qd>>

NothingToRun(e) == e.segment_defs = <<>> /\ ~e.state.given

\* print_usage(); return 1
Usage ==
  /\ exec.phase = "parsed"
  /\ NothingToRun(exec)
  /\ ExecStep([exec EXCEPT !.phase = "usage"])

\* emu.import_state, when --load-state is given
ImportState ==
  /\ exec.phase = "parsed"
  /\ ~NothingToRun(exec)
  /\ ExecStep(IF exec.state.given
                THEN [exec EXCEPT !.phase = "state", !.reg_sp = exec.state.sp,
                                  !.regions = @ \cup exec.state.regions,
                                  !.done = Append(@, "state")]
                ELSE [exec EXCEPT !.phase = "state"])

\* the loop over segment_defs
ApplySegments ==
  /\ exec.phase = "state"
  /\ ExecStep(IF exec.segment_defs = <<>> THEN [exec EXCEPT !.phase = "segments"]
              ELSE LET def == exec.segment_defs[1]
                   IN IF \E r \in exec.regions :
                           def.addr < r.base + r.size /\ r.base < def.addr + def.size
                        THEN [exec EXCEPT !.phase = "failed"]
                        ELSE [exec EXCEPT !.phase = "segments",
                                          !.regions = @ \cup {[base |-> def.addr, size |-> def.size]},
                                          !.done = Append(@, "segments")])

\* uint32_t sp = regs.get_sp(), and the stack region made when it is 0
SetUpStack ==
  /\ exec.phase = "segments"
  /\ ExecStep(IF exec.reg_sp = <<0, 0>>
                THEN [exec EXCEPT !.phase = "stack",
                                  !.regions = @ \cup {[base |-> AutoStackBase, size |-> stack_size]},
                                  !.sp = FromNat(AutoStackBase + stack_size),
                                  !.sp_before = FromNat(AutoStackBase + stack_size)]
                ELSE [exec EXCEPT !.phase = "stack", !.sp = exec.reg_sp,
                                  !.sp_before = exec.reg_sp])

\* one iteration of the loop over values_to_push
Push ==
  /\ exec.phase = "stack"
  /\ exec.pushed < Len(exec.values_to_push)
  /\ LET sp == SubW32(exec.sp, <<0, 4>>)
         value == NextToPush(exec.values_to_push, exec.pushed)
     IN ExecStep(IF ExecMapped(exec.regions, sp, 4)
                   THEN [exec EXCEPT !.sp = sp, !.pushed = @ + 1,
                                     !.mem = ExecWrite(@, Addr(sp), StackWord(exec.little, value)),
                                     !.done = Append(@, "push")]
                   ELSE [exec EXCEPT !.sp = sp, !.phase = "failed"])

\* regs.set_sp(sp)
SaveStackPointer ==
  /\ exec.phase = "stack"
  /\ exec.pushed = Len(exec.values_to_push)
  /\ ExecStep([exec EXCEPT !.phase = "sp_saved", !.reg_sp = exec.sp])

\* the loop over patches
ApplyPatches ==
  /\ exec.phase = "sp_saved"
  /\ ExecStep(IF exec.patches = {} THEN [exec EXCEPT !.phase = "patched"]
              ELSE LET patch == CHOOSE p \in exec.patches : TRUE
                   IN IF ExecMapped(exec.regions, FromNat(patch.addr), Len(patch.data))
                        THEN [exec EXCEPT !.phase = "patched",
                                          !.mem = ExecWrite(@, patch.addr, patch.data),
                                          !.done = Append(@, "patch")]
                        ELSE [exec EXCEPT !.phase = "failed"])

\* emu.execute()
Execute ==
  /\ exec.phase = "patched"
  /\ ExecStep([exec EXCEPT !.phase = "executing"])

ExecNext ==
  \/ Usage
  \/ ImportState
  \/ ApplySegments
  \/ SetUpStack
  \/ Push
  \/ SaveStackPointer
  \/ ApplyPatches
  \/ Execute

SpecExec == ExecInit /\ [][ExecNext]_vars

\* --- properties of m68kexec ---

\* the 32-bit word at an address, in the byte order of the guest
WordAt(addr) ==
  LET b == [i \in 1..4 |-> ExecReadByte(exec.mem, addr + i - 1)]
  IN IF exec.little THEN <<b[4] * 256 + b[3], b[2] * 256 + b[1]>>
     ELSE <<b[1] * 256 + b[2], b[3] * 256 + b[4]>>

\* the k-th value from the end of the command line
FromTheEnd(k) == exec.values_to_push[Len(exec.values_to_push) - k + 1]

\* the steps of main_t that have been taken come in this order: state
\* loading and segment creation, then the pushes, then the patches
PushesInTheirPlace ==
  \A i, j \in 1..Len(exec.done) :
    (exec.done[i] = "push" /\ exec.done[j] \in {"state", "segments"}) => j < i

PatchesAfterPushes ==
  \A i, j \in 1..Len(exec.done) :
    (exec.done[i] = "push" /\ exec.done[j] = "patch") => i < j

\* SP is 4 bytes per value below where it was before the pushes
StackPointerMoved ==
  LET n == Len(exec.values_to_push)
  IN exec.reg_sp = SubW32(exec.sp_before, FromNat(4 * n))

\* a patch writes into the word at the address
Patched(addr) ==
  \E p \in exec.patches : p.addr < addr + 4 /\ addr < p.addr + Len(p.data)

MaxArgs == 4

\* the arguments main looks at, and one it passes over
Arguments == {"--m68k", "--ppc32", "--x86", "--load-pe=", "--load-dol=", "--push="}

MainInit ==
  /\ ShimIdle
  /\ qd = NoRegion
  /\ machine = NoMachine
  /\ alu = NoAlu
  /\ exec \in {[NoExec EXCEPT !.phase = "main", !.argv = a] : a \in SeqsUpTo(Arguments, MaxArgs)}

\* the architecture an argument assigns, or the one already chosen
ArchitectureAfter(arch, arg) ==
  CASE arg = "--m68k" -> "M68K"
    [] arg = "--ppc32" -> "PPC32"
    [] arg = "--x86" -> "X86"
    [] arg = "--load-pe=" -> "X86"
    [] arg = "--load-dol=" -> "PPC32"
    [] OTHER -> arch

\* one iteration of main's loop over argv
ScanArgument ==
  /\ exec.phase = "main"
  /\ exec.x <= Len(exec.argv)
  /\ ExecStep([exec EXCEPT !.x = @ + 1,
                           !.arch = ArchitectureAfter(@, exec.argv[exec.x])])

\* main calls main_t<M68KEmulator>, main_t<PPC32Emulator> or
\* main_t<X86Emulator>
Dispatch ==
  /\ exec.phase = "main"
  /\ exec.x > Len(exec.argv)
  /\ ExecStep([exec EXCEPT !.phase = "main_t", !.little = (exec.arch = "X86")])

MainNext == ScanArgument \/ Dispatch

SpecMain == MainInit /\ [][MainNext]_vars

\* --- properties of main ---

Given(arg) == \E i \in 1..Len(exec.argv) : exec.argv[i] = arg

ExplicitOptions == {a \in {"--m68k", "--ppc32", "--x86"} : Given(a)}

\* C21: main_t runs with the architecture of the explicit option whenever
\* one of --m68k, --ppc32, --x86 is given, wherever it stands among the
\* arguments; --load-pe selects X86 and --load-dol PPC32 only when no
\* explicit option is given; with none of the five the architecture is M68K.
C21_ExplicitArchitectureWins ==
  exec.phase = "main_t" =>
    /\ \A a \in ExplicitOptions :
         ExplicitOptions = {a} => exec.arch = ArchitectureAfter("M68K", a)
    /\ (ExplicitOptions = {} /\ Given("--load-pe=") /\ ~Given("--load-dol="))
         => exec.arch = "X86"
    /\ (ExplicitOptions = {} /\ Given("--load-dol=") /\ ~Given("--load-pe="))
         => exec.arch = "PPC32"
    /\ (ExplicitOptions = {} /\ ~Given("--load-dol=") /\ ~Given("--load-pe="))
         => exec.arch = "M68K"

\* ------------------------------------------------------------------------
\* decompress_resource called again on its own result
\* ------------------------------------------------------------------------

AgainNext == Next \/ decompress_resource_again

SpecAgain == Init /\ [][AgainNext]_vars

\* the header of the call's resource passed every check before the
\* candidate list is built
HeaderAccepted ==
  /\ NotSkipped
  /\ ~HeaderTooSmall(res_before.data)
  /\ ~MagicMismatch(res_before.data)
  /\ HasCompressionAttribute(res_before.data)
  /\ VersionSupported(res_before.data)

\* C22: when the candidate list is empty after filtering by the skip flags
\* and by availability, the call fails with an error, attempts nothing and
\* leaves the resource's data and flags as they were.
C22_NoCandidatesFails ==
  (HeaderAccepted /\ dcmp_resources = <<>>) =>
    /\ pc = "threw"
    /\ error = "no decompressors are available for this resource"
    /\ attempts = <<>>
    /\ res = res_before

\* every source of candidates is skipped or has nothing for the id
C22_Witness ==
  /\ HeaderAccepted
  /\ dcmp_resources = <<>>
  /\ pc = "threw"
  /\ "SKIP_INTERNAL" \in decompress_flags
  /\ dcmp_resource_id = 2
  /\ ~context_rf.null

\* C26: whenever the call raises an error, and after every failed attempt,
\* the resource's data and flags are what they were when the call was made.
C26_FailureLeavesResource ==
  pc \in {"loop", "threw"} => res = res_before

\* every candidate failed, the last one after producing output
C26_Witness ==
  /\ pc = "threw"
  /\ Len(attempts) >= 2
  /\ emu.produced > 0
  /\ "COMPRESSED" \in res.flags

\* the call returned at one of the three checks of its first lines
Skipped == InCall /\ ~NotSkipped

\* a call is made by a caller holding some resource
FirstCallStep == pc = "idle" /\ pc' # "idle"

\* a call is made on the resource the call before has decompressed
SecondCallStep == pc = "returned" /\ pc' # "idle"

\* C27: a call on a resource that is not flagged compressed, or is flagged
\* decompression-failed without RETRY, or with DISABLED set, returns with
\* the resource, the cache and the files as they were and attempts no
\* decompressor; a second call on a successfully decompressed resource is
\* such a call and leaves its data and flags unchanged.
C27_SkippedCallChangesNothing ==
  [][/\ ((FirstCallStep \/ SecondCallStep) /\ Skipped') =>
          /\ res' = res_before'
          /\ attempts' = <<>>
          /\ dcmp_resources' = <<>>
          /\ pc' = "returned"
          /\ error' = ""
          /\ UNCHANGED <<id_to_res, files>>
     /\ SecondCallStep => (Skipped' /\ res' = res)]_vars

\* a second call has returned on decompressed data
C27_Witness ==
  /\ pc = "returned"
  /\ attempts = <<>>
  /\ res.flags = {"DECOMPRESSED"}
  /\ res.data = <<33, 34>>
  /\ "RETRY" \in decompress_flags

\* --- the flags of an OS trap ---

\* bit n of an opcode
OpcodeBit(n) == (machine.opcode \div (2 ^ n)) % 2

OsTrapDecoded == machine.steps > 0 /\ OpcodeBit(11) = 0

\* C23 as stated: for an OS trap (bit 11 clear) the flags the handler
\* extracts are bits 9..8 of the opcode.
C23_FlagsAreBits9and8 ==
  OsTrapDecoded => machine.flags = 2 * OpcodeBit(9) + OpcodeBit(8)

\* C23 amended: for an OS trap (bit 11 clear) the flags either handler
\* extracts are bits 10..9 of the opcode, bit 10 being the high bit of the
\* value; bit 8 is in neither the flags nor the trap number.
C23_FlagsAreBits10and9 ==
  OsTrapDecoded =>
    /\ machine.flags = 2 * OpcodeBit(10) + OpcodeBit(9)
    /\ machine.trap_number = machine.opcode % 256

\* the OS trap 0xA322 (bits 9 and 8 set, bit 10 clear) gave flags 1 under
\* m68kexec's handler
C23_Witness ==
  /\ Trapped("m68kexec")
  /\ machine.opcode = 40960 + 512 + 256 + 34
  /\ machine.flags = 1

\* ------------------------------------------------------------------------
\* get_system_decompressor called while system_dcmps/ changes
\* ------------------------------------------------------------------------

\* largest number of calls of get_system_decompressor in one run
MaxLookups == 4

CacheInit ==
  /\ ShimIdle
  /\ qd = NoRegion
  /\ machine = NoMachine
  /\ alu = NoAlu
  /\ exec = NoExec

\* one call of get_system_decompressor; loads records the files it has read
GetSystemDecompressor ==
  /\ lookup.calls < MaxLookups
  /\ \E use_ncmp \in BOOLEAN, resource_id \in DcmpIds :
       LET got == get_system_decompressor(id_to_res, files, use_ncmp, resource_id)
       IN /\ id_to_res' = got.cache
          /\ lookup' = [calls |-> lookup.calls + 1, use_ncmp |-> use_ncmp,
                        resource_id |-> resource_id, found |-> got.found, res |-> got.res,
                        loads |-> IF got.cache # id_to_res
                                    THEN lookup.loads \cup {<<lookup.calls + 1, use_ncmp, resource_id>>}
                                    ELSE lookup.loads]
  /\ UNCHANGED <<files, res, decompress_flags, context_rf, pc, error,
                 dcmp_resource_id, output_extra_bytes, dcmp_resources, z,
                 attempts, emu, res_before, machine, alu, exec, qd>>

\* between two calls files appear in system_dcmps/ or vanish from it
FilesChange ==
  /\ \E fs \in SystemFileSets : fs # files /\ files' = fs
  /\ UNCHANGED <<id_to_res, res, decompress_flags, context_rf, pc, error,
                 dcmp_resource_id, output_extra_bytes, dcmp_resources, z,
                 attempts, emu, res_before, machine, alu, exec, lookup, qd>>

CacheNext == GetSystemDecompressor \/ FilesChange

SpecCache == CacheInit /\ [][CacheNext]_vars

\* --- properties of get_system_decompressor ---

\* the step is a call of get_system_decompressor
LookupStep == lookup'.calls = lookup.calls + 1

\* the key the call of the step looks up
RequestedKey == CacheKey(lookup'.use_ncmp, lookup'.resource_id)

RequestedFile == <<lookup'.use_ncmp, lookup'.resource_id>>

\* C24: the cache is filled lazily and never invalidated. An entry, once
\* there, is never removed or replaced. A call whose key is cached returns
\* the cached resource whether its file is still there or not, and reads no
\* file. A call whose key is not cached adds one entry from its file when
\* the file exists, and adds nothing and fails when it does not. No file is
\* loaded twice.
C24_CacheLazyAndStable ==
  [][/\ \A k \in DOMAIN id_to_res : k \in DOMAIN id_to_res' /\ id_to_res'[k] = id_to_res[k]
     /\ ~LookupStep => id_to_res' = id_to_res
     /\ LookupStep =>
          /\ RequestedKey \in DOMAIN id_to_res =>
               /\ lookup'.found
               /\ lookup'.res = id_to_res[RequestedKey]
               /\ id_to_res' = id_to_res
               /\ lookup'.loads = lookup.loads
          /\ (RequestedKey \notin DOMAIN id_to_res /\ RequestedFile \in files) =>
               /\ lookup'.found
               /\ DOMAIN id_to_res' = DOMAIN id_to_res \cup {RequestedKey}
               /\ id_to_res'[RequestedKey] = lookup'.res
          /\ (RequestedKey \notin DOMAIN id_to_res /\ RequestedFile \notin files) =>
               /\ ~lookup'.found
               /\ id_to_res' = id_to_res
          /\ \A a, b \in lookup'.loads : (a[2] = b[2] /\ a[3] = b[3]) => a = b]_vars

\* the fourth call finds its resource in the cache after the file it was
\* loaded from has vanished
C24_Witness ==
  /\ lookup.calls = 4
  /\ lookup.found
  /\ lookup.resource_id = 2
  /\ ~lookup.use_ncmp
  /\ <<FALSE, 2>> \notin files
  /\ Cardinality(lookup.loads) = 2

\* C25 as stated: whatever calls were made before, the resource a call
\* returns has the requested type and the requested id, and the keys of a
\* dcmp and of an ncmp request for one id differ.
C25_ReturnsRequestedResource ==
  /\ (lookup.calls > 0 /\ lookup.found) =>
       /\ lookup.res.type = (IF lookup.use_ncmp THEN "ncmp" ELSE "dcmp")
       /\ lookup.res.id = lookup.resource_id
  /\ \A id \in DcmpIds : CacheKey(FALSE, id) # CacheKey(TRUE, id)

\* --- NewHandle followed by GetHandleSize ---

\* the latest trap was a NewHandle under m68kexec's handler, it succeeded,
\* and A0 still holds the handle it returned
NewHandleReturned ==
  /\ machine.handler = "m68kexec"
  /\ machine.status = "running"
  /\ machine.steps > 0
  /\ machine.trap_number = 34
  /\ Small(machine.a0)
  /\ \E b \in machine.blocks : b.base = Val(machine.a0) /\ b.size >= 4

\* the size NewHandle was asked for: its block without the master pointer
RequestedHandleSize ==
  (CHOOSE b \in machine.blocks : b.base = Val(machine.a0)).size - 4

\* C28: GetHandleSize on the handle NewHandle has just returned for a size
\* n leaves n in D0.
C28_GetHandleSizeReturnsSize ==
  [][(NewHandleReturned /\ TrapStep("m68kexec", 37)) =>
       machine'.d0 = FromNat(RequestedHandleSize)]_vars

\* ------------------------------------------------------------------------
\* QuickDraw Region: parsing, serialize, render and contains
\* ------------------------------------------------------------------------

\* largest number of inversion points in the region data read
MaxPoints == 2

\* an int16_t as the 16-bit word put_u16b writes, and back
U16(n) == IF n < 0 THEN n + W16 ELSE n

S16(w) == IF w >= W16 \div 2 THEN w - W16 ELSE w

\* (static_cast<int32_t>(x) << 16) | y as the two halves of the int32_t: y
\* is promoted to int before the OR, so a negative y sets every bit of the
\* upper half
signature_for_inversion_point(x, y) ==
  <<Or16(U16(x), IF y < 0 THEN W16 - 1 ELSE 0, 16), U16(y)>>

\* Point(s & 0xFFFF, (s >> 16) & 0xFFFF), Point's constructor taking (y, x)
inversion_point_for_signature(s) == [y |-> S16(s[2]), x |-> S16(s[1])]

\* the comparison serialize sorts with
PointBefore(a, b) == a.y < b.y \/ (a.y = b.y /\ a.x < b.x)

RECURSIVE SortedPoints(_)
SortedPoints(set) ==
  IF set = {} THEN <<>>
  ELSE LET first == CHOOSE p \in set : \A q \in set \ {p} : PointBefore(p, q)
       IN <<first>> \o SortedPoints(set \ {first})

PutRect(rect) == <<U16(rect.y1), U16(rect.x1), U16(rect.y2), U16(rect.x2)>>

RECURSIVE PutPoints(_, _, _)
\* the loop of serialize over the sorted points
PutPoints(points, i, prev_y) ==
  IF i > Len(points) THEN <<>>
  ELSE (IF points[i].y # prev_y THEN <<32767>> ELSE <<>>) \o <<U16(points[i].x)>> \o
       PutPoints(points, i + 1, points[i].y)

\* Region::serialize, as the 16-bit words of the string
serialize(region) ==
  LET points == SortedPoints({inversion_point_for_signature(s) : s \in region.inversions})
      body == PutRect(region.rect) \o
              (IF points = <<>> THEN <<>>
               ELSE <<U16(points[1].y)>> \o PutPoints(points, 1, points[1].y) \o <<32767, 32767>>)
  IN <<(2 * (Len(body) + 1)) % W16>> \o body

RECURSIVE ParseRows(_, _, _, _, _, _)
\* the two nested loops of the parsing constructor; pos counts the words
\* read, in_row says that the inner loop is running for row y
ParseRows(w, pos, endw, in_row, y, inv) ==
  IF pos >= endw THEN [ok |-> TRUE, pos |-> pos, inversions |-> inv]
  ELSE IF pos + 1 > Len(w) THEN [ok |-> FALSE, pos |-> pos, inversions |-> inv]
  ELSE LET v == S16(w[pos + 1])
       IN IF ~in_row
            THEN IF v = 32767 THEN [ok |-> TRUE, pos |-> pos + 1, inversions |-> inv]
                 ELSE ParseRows(w, pos + 1, endw, TRUE, v, inv)
            ELSE IF v = 32767 THEN ParseRows(w, pos + 1, endw, FALSE, 0, inv)
                 ELSE ParseRows(w, pos + 1, endw, TRUE, y,
                                inv \cup {signature_for_inversion_point(v, y)})

NoRect == [y1 |-> 0, x1 |-> 0, y2 |-> 0, x2 |-> 0]

\* Region::Region(StringReader&) on a string of 16-bit words
ParseRegion(w) ==
  LET failed == [ok |-> FALSE, rect |-> NoRect, inversions |-> {}]
  IN IF Len(w) < 1 THEN failed
     ELSE IF w[1] < 10 \/ w[1] % 2 = 1 \/ Len(w) < 5 THEN failed
     ELSE LET rows == ParseRows(w, 5, w[1] \div 2, FALSE, 0, {})
          IN IF ~rows.ok \/ rows.pos # w[1] \div 2 THEN failed
             ELSE [ok |-> TRUE,
                   rect |-> [y1 |-> S16(w[2]), x1 |-> S16(w[3]), y2 |-> S16(w[4]), x2 |-> S16(w[5])],
                   inversions |-> rows.inversions]

\* the pixel Region::render leaves at (xx, yy) of the image: white, inverted
\* once for every inversion point whose loops reach it; size_t yy = y and
\* size_t xx = x start beyond the image for a negative coordinate
RenderedPixel(region, xx, yy) ==
  LET reaching == {s \in region.inversions :
                     /\ S16(s[1]) >= 0 /\ S16(s[2]) >= 0
                     /\ S16(s[1]) <= xx /\ S16(s[2]) <= yy}
  IN IF Cardinality(reaching) % 2 = 0 THEN 255 ELSE 0

\* the branch of Region::contains that reads the rendered image
ContainsByRendering(region, x, y) ==
  RenderedPixel(region, x - region.rect.x1, y - region.rect.y1) # 0

\* the branch of Region::contains that counts inversion points
ContainsByCounting(region, x, y) ==
  Cardinality({s \in region.inversions : S16(s[1]) <= x /\ S16(s[2]) <= y}) % 2 = 0

\* the area from which Region::contains counts instead of rendering
RenderAreaLimit == 1000000

InsideRect(rect, x, y) == ~(x < rect.x1 \/ x >= rect.x2 \/ y < rect.y1 \/ y >= rect.y2)

\* Region::contains
contains(region, x, y) ==
  IF ~InsideRect(region.rect, x, y) THEN FALSE
  ELSE IF (region.rect.x2 - region.rect.x1) * (region.rect.y2 - region.rect.y1) >= RenderAreaLimit
    THEN ContainsByCounting(region, x, y)
    ELSE ContainsByRendering(region, x, y)

\* --- region data read by the program ---

Coordinates == {-1, 1, 2, 12}

\* y1, x1, y2, x2
InputRects ==
  {[y1 |-> 0, x1 |-> 0, y2 |-> 4, x2 |-> 4], [y1 |-> 10, x1 |-> 10, y2 |-> 14, x2 |-> 14],
   [y1 |-> -2, x1 |-> -2, y2 |-> 2, x2 |-> 2], [y1 |-> 0, x1 |-> 0, y2 |-> 1000, x2 |-> 1000]}

RECURSIVE PutRows(_, _)
\* region data in the format the parser reads: per row its y, its x values
\* and 0x7FFF, and a last 0x7FFF
PutRows(points, i) ==
  IF i > Len(points) THEN <<32767>>
  ELSE (IF i = 1 \/ points[i].y # points[(IF i = 1 THEN 1 ELSE i - 1)].y
          THEN <<U16(points[i].y)>> ELSE <<>>) \o
       <<U16(points[i].x)>> \o
       (IF i = Len(points) \/ points[(IF i = Len(points) THEN i ELSE i + 1)].y # points[i].y
          THEN <<32767>> ELSE <<>>) \o
       PutRows(points, i + 1)

RegionData(rect, points) ==
  LET body == PutRect(rect) \o (IF points = {} THEN <<>> ELSE PutRows(SortedPoints(points), 1))
  IN <<2 * (Len(body) + 1)>> \o body

RegionInputs ==
  {RegionData(rect, points) :
     rect \in InputRects,
     points \in {p \in SUBSET [x : Coordinates, y : Coordinates] : Cardinality(p) <= MaxPoints}}
  \cup {<<8, 0, 0, 4>>, <<11, 0, 0, 4, 4>>, <<14, 0, 0, 4, 4, 1, 2>>}

TestCoordinates == {-1, 0, 1, 2, 3, 11, 12, 13, 500}

RegionInit ==
  /\ ShimIdle
  /\ machine = NoMachine
  /\ alu = NoAlu
  /\ exec = NoExec
  /\ qd \in {[NoRegion EXCEPT !.phase = "input", !.input = w] : w \in RegionInputs}

RegionStep(q) == qd' = q /\ UNCHANGED <<shimVars, machine, alu, exec>>

\* a Region is constructed from the data
ReadRegion ==
  /\ qd.phase = "input"
  /\ LET r == ParseRegion(qd.input)
     IN RegionStep([qd EXCEPT !.phase = IF r.ok THEN "region" ELSE "failed",
                              !.ok = r.ok, !.rect = r.rect, !.inversions = r.inversions])

\* Region::serialize
SerializeRegion ==
  /\ qd.phase = "region"
  /\ RegionStep([qd EXCEPT !.phase = "serialized", !.bytes = serialize(qd)])

\* a Region is constructed from what serialize returned
ReadSerialized ==
  /\ qd.phase = "serialized"
  /\ RegionStep([qd EXCEPT !.phase = "reparsed", !.again = ParseRegion(qd.bytes)])

\* Region::contains
ContainsPoint ==
  /\ qd.phase = "region"
  /\ \E x \in TestCoordinates, y \in TestCoordinates :
       RegionStep([qd EXCEPT !.phase = "contains", !.x = x, !.y = y,
                             !.contained = contains(qd, x, y)])

RegionNext ==
  \/ ReadRegion
  \/ SerializeRegion
  \/ ReadSerialized
  \/ ContainsPoint

SpecRegion == RegionInit /\ [][RegionNext]_vars

\* --- properties of Region ---

\* C29: parsing what serialize produces gives a Region with the same rect
\* and the same inversion points, and the size field written is the number
\* of bytes serialized.
C29_SerializeRoundTrip ==
  qd.phase = "reparsed" =>
    /\ qd.again.ok
    /\ qd.again.rect = qd.rect
    /\ qd.again.inversions = qd.inversions
    /\ qd.bytes[1] = 2 * Len(qd.bytes)

\* C30: for a point inside the rect, counting inversion points and reading
\* the rendered image give the same answer, which is the one contains
\* returns; a point outside the rect is not contained.
C30_StrategiesAgree ==
  qd.phase = "contains" =>
    IF InsideRect(qd.rect, qd.x, qd.y)
      THEN /\ ContainsByCounting(qd, qd.x, qd.y) = ContainsByRendering(qd, qd.x, qd.y)
           /\ qd.contained = ContainsByCounting(qd, qd.x, qd.y)
      ELSE ~qd.contained

====
